---- MODULE Spec2Model ----
(***************************************************************************)
(* A model of the JobSync backend core: the match scoring engine           *)
(* (app/services/matcher.py), the resume parsing pipeline                  *)
(* (app/services/resume_parser.py) and the upload route                    *)
(* (app/routes/resumes.py).                                                *)
(*                                                                         *)
(* Conventions.                                                            *)
(*  - Python values are tagged records: PyNone, PyInt(n), PyStr(s).        *)
(*  - Python floats are modelled by exact rationals [n |-> _, d |-> _].    *)
(*    round(x, 2) of a 0..100 figure is an integer number of hundredths.   *)
(*  - Strings are TLA+ strings read character by character with SubSeq.    *)
(*    The module is ASCII, so four non-ASCII characters of the source are  *)
(*    written with stand-in characters that occur nowhere else:            *)
(*    EN_DASH, A_CIRC, EURO and LDQUO.                                     *)
(*  - A call that raises returns Raise(exc, msg); one that returns v       *)
(*    gives Ok(v).                                                         *)
(***************************************************************************)
EXTENDS Integers, Sequences, FiniteSets, TLC

VARIABLES
    call,               \* the last sub-scorer call: [fn, args, ret]
    pc,                 \* position inside calculate_match_score
    prefs_src,          \* how the preferences reached calculate_match_score
    skill_score,        \* locals of calculate_match_score (matcher.py 271-278)
    semantic_score,
    experience_score,
    location_score,
    salary_score,
    result,             \* what calculate_match_score returned or raised
    parsed,             \* the last call of ResumeParser.parse: [filename, content, out]
    files,              \* the files in the upload directory
    db_resumes,         \* the rows of table resumes
    db_resume_skills,   \* the rows of table resume_skills
    next_uuid,          \* the next value uuid.uuid4() gives
    request,            \* the last upload request, with the stores as it found them
    response,           \* the response to the last upload request
    nlp,                \* the spaCy pipeline the parser loaded (self.nlp)
    clock,              \* what datetime.utcnow() reads
    reparsed,           \* a second call of parse on the input of the last one
    vectorizer,         \* what the shared TfidfVectorizer was last fitted on
    threads,            \* the concurrent scoring calls, each with its position
    db_jobs,            \* the rows of table jobs
    db_matches,         \* the rows of table matches, in the order of their insertion
    db_preferences,     \* the rows of table preferences
    db_applications,    \* the rows of table applications
    handlers            \* the requests being handled by get_matched_jobs

vars == <<call, pc, prefs_src, skill_score, semantic_score, experience_score,
          location_score, salary_score, result, parsed, files, db_resumes,
          db_resume_skills, next_uuid, request, response, nlp, clock, reparsed,
          vectorizer, threads, db_jobs, db_matches, db_preferences, db_applications,
          handlers>>

(***************************************************************************)
(* Bounds of the model.                                                    *)
(***************************************************************************)
MaxSalary == 3
NegSalary == 2
MaxEntries == 8
MaxYears == 5
MaxPages == 2
MaxUploads == 2
MaxClock == 2

(***************************************************************************)
(* Python values.                                                          *)
(***************************************************************************)
PyNone == [t |-> "None"]
PyInt(n) == [t |-> "int", v |-> n]
PyStr(s) == [t |-> "str", v |-> s]

\* bool(x): None, 0 and "" are falsy.
Truthy(x) ==
    CASE x.t = "None" -> FALSE
      [] x.t = "int" -> x.v # 0
      [] x.t = "str" -> x.v # ""

\* a <= b, a >= b, a > b are defined between two ints; between a str and an
\* int, or with None, Python 3 raises TypeError.
Comparable(a, b) == a.t = "int" /\ b.t = "int"

Ok(v) == [kind |-> "ok", val |-> v]
Raise(exc, msg) == [kind |-> "raise", exc |-> exc, msg |-> msg]

(***************************************************************************)
(* Exact rationals standing for Python floats.                             *)
(***************************************************************************)
Abs(i) == IF i < 0 THEN 0 - i ELSE i

RECURSIVE GCD(_, _)
GCD(a, b) == IF b = 0 THEN a ELSE GCD(b, a % b)

\* n/d in lowest terms with a positive denominator (d # 0).
Rat(n, d) ==
    LET g == GCD(Abs(n), Abs(d))
        s == IF d < 0 THEN 0 - 1 ELSE 1
    IN  [n |-> (s * n) \div g, d |-> (s * d) \div g]

RZero == Rat(0, 1)
ROne == Rat(1, 1)
RAdd(a, b) == Rat(a.n * b.d + b.n * a.d, a.d * b.d)
RSub(a, b) == Rat(a.n * b.d - b.n * a.d, a.d * b.d)
RMul(a, b) == Rat(a.n * b.n, a.d * b.d)
RLe(a, b) == a.n * b.d <= b.n * a.d
RLt(a, b) == a.n * b.d < b.n * a.d
\* Python's min(a, b) and max(a, b): the first argument wins a tie.
RMin(a, b) == IF RLt(b, a) THEN b ELSE a
RMax(a, b) == IF RLt(a, b) THEN b ELSE a

\* round(r * 100, 2), in hundredths: round-half-even of r * 10000.
Round2Pct(r) ==
    LET num == r.n * 10000
        q == num \div r.d
        rem == num - q * r.d
    IN  IF 2 * rem < r.d THEN q
        ELSE IF 2 * rem > r.d THEN q + 1
        ELSE IF q % 2 = 0 THEN q ELSE q + 1

(***************************************************************************)
(* Strings.                                                                *)
(***************************************************************************)
EN_DASH == "~"
A_CIRC == "^"
EURO == "$"
LDQUO == "|"

Ch(s, i) == SubSeq(s, i, i)
UPPER == "ABCDEFGHIJKLMNOPQRSTUVWXYZ"
LOWER == "abcdefghijklmnopqrstuvwxyz"
DIGITS == "0123456789"

IsUpper(c) == \E i \in 1..Len(UPPER) : Ch(UPPER, i) = c
IsLower(c) == \E i \in 1..Len(LOWER) : Ch(LOWER, i) = c
IsDigit(c) == \E i \in 1..Len(DIGITS) : Ch(DIGITS, i) = c
DigitVal(c) == (CHOOSE i \in 1..Len(DIGITS) : Ch(DIGITS, i) = c) - 1

LowerChar(c) ==
    IF IsUpper(c) THEN Ch(LOWER, CHOOSE i \in 1..Len(UPPER) : Ch(UPPER, i) = c)
    ELSE c
UpperChar(c) ==
    IF IsLower(c) THEN Ch(UPPER, CHOOSE i \in 1..Len(LOWER) : Ch(LOWER, i) = c)
    ELSE c

\* str.lower()
RECURSIVE Lower(_)
Lower(s) ==
    IF s = "" THEN ""
    ELSE IF Len(s) = 1 THEN LowerChar(Ch(s, 1))
    ELSE Lower(SubSeq(s, 1, Len(s) \div 2)) \o Lower(SubSeq(s, Len(s) \div 2 + 1, Len(s)))

\* sub in s
Contains(s, sub) ==
    \E i \in 1..(Len(s) - Len(sub) + 1) : SubSeq(s, i, i + Len(sub) - 1) = sub

\* s.endswith(suffix)
EndsWith(s, suffix) ==
    Len(suffix) <= Len(s) /\ SubSeq(s, Len(s) - Len(suffix) + 1, Len(s)) = suffix

IsLetter(c) == IsUpper(c) \/ IsLower(c)
\* \w of the re module.
IsWordChar(c) == IsLetter(c) \/ IsDigit(c) \/ c = "_"
IsSpace(c) == c \in {" ", "\n", "\t", "\r"}

\* str.strip()
RECURSIVE LStrip(_)
LStrip(s) ==
    IF s # "" /\ IsSpace(Ch(s, 1)) THEN LStrip(SubSeq(s, 2, Len(s))) ELSE s
RECURSIVE RStrip(_)
RStrip(s) ==
    IF s # "" /\ IsSpace(Ch(s, Len(s))) THEN RStrip(SubSeq(s, 1, Len(s) - 1)) ELSE s
Strip(s) == RStrip(LStrip(s))

\* str.title(): a letter that follows a letter is lowered, any other letter
\* is raised.
RECURSIVE TitleFrom(_, _)
TitleFrom(s, afterLetter) ==
    IF s = "" THEN ""
    ELSE (IF afterLetter THEN LowerChar(Ch(s, 1)) ELSE UpperChar(Ch(s, 1)))
         \o TitleFrom(SubSeq(s, 2, Len(s)), IsLetter(Ch(s, 1)))
Title(s) == TitleFrom(s, FALSE)

(***************************************************************************)
(* The five sub-scorers of JobMatcher.                                     *)
(*                                                                         *)
(* The TF-IDF vectorizer and the sentence encoder are libraries: what they *)
(* give for a pair of texts is an input of the model: LibraryError stands   *)
(* for any exception they raise; otherwise they give a cosine similarity.  *)
(* A cosine computed in floating point can exceed 1 by a rounding error,   *)
(* and one between embeddings can be negative.                             *)
(***************************************************************************)
LibraryError == Raise("Exception", "library failure")
TfidfOutcomes ==
    {LibraryError} \cup {Ok(c) : c \in {Rat(0, 1), Rat(1, 2), Rat(1, 1), Rat(101, 100)}}
EncoderOutcomes ==
    {LibraryError}
    \cup {Ok(c) : c \in {Rat(0 - 1, 2), Rat(0, 1), Rat(1, 2), Rat(1, 1), Rat(101, 100)}}

LowerAll(skills) == {Lower(skills[i]) : i \in DOMAIN skills}

calculate_skill_match(resume_skills, job_skills, tfidf) ==
    IF resume_skills = <<>> \/ job_skills = <<>> THEN RZero
    ELSE
        LET exact_matches == Cardinality(LowerAll(resume_skills) \cap LowerAll(job_skills))
            exact_match_score == Rat(exact_matches, Len(job_skills))
            tfidf_score == IF tfidf.kind = "raise" THEN exact_match_score ELSE tfidf.val
            final_score == RAdd(RMul(exact_match_score, Rat(7, 10)),
                                RMul(tfidf_score, Rat(3, 10)))
        IN  RMin(final_score, ROne)

\* calculate_semantic_similarity returning the cosine as computed.
calculate_semantic_similarity_unclamped(resume_summary, job_description, encoder) ==
    IF ~Truthy(resume_summary) \/ ~Truthy(job_description) THEN RZero
    ELSE IF encoder.kind = "raise" THEN RZero
    ELSE encoder.val

calculate_semantic_similarity(resume_summary, job_description, encoder) ==
    IF ~Truthy(resume_summary) \/ ~Truthy(job_description) THEN RZero
    ELSE IF encoder.kind = "raise" THEN RZero
    ELSE RMax(RZero, RMin(encoder.val, ROne))

\* The character class of the range pattern, [-...], as the source has it:
\* an ASCII hyphen and the three characters of a mis-decoded en-dash.
DashClass == {"-", A_CIRC, EURO, LDQUO}

\* The end of the run of digits that starts at s[i].
DigitRunEnd(s, i) ==
    CHOOSE j \in i..Len(s) :
        /\ \A k \in i..j : IsDigit(Ch(s, k))
        /\ j = Len(s) \/ ~IsDigit(Ch(s, j + 1))

\* (\d+)[-...](\d+) matches at position i: \d+ is greedy, and giving back a
\* digit never helps, since the next character would then be a digit.
RangeMatchAt(s, i) ==
    /\ IsDigit(Ch(s, i))
    /\ LET j == DigitRunEnd(s, i)
       IN  /\ j + 2 <= Len(s)
           /\ Ch(s, j + 1) \in DashClass
           /\ IsDigit(Ch(s, j + 2))

RECURSIVE ParseInt(_)
ParseInt(s) ==
    IF s = "" THEN 0
    ELSE 10 * ParseInt(SubSeq(s, 1, Len(s) - 1)) + DigitVal(Ch(s, Len(s)))

\* re.search: the leftmost match, as <<group 1, group 2>>, or <<>> for None.
RangeSearch(s) ==
    IF \E i \in 1..Len(s) : RangeMatchAt(s, i)
    THEN LET i == CHOOSE i \in 1..Len(s) :
                      RangeMatchAt(s, i) /\ \A k \in 1..(i - 1) : ~RangeMatchAt(s, k)
             j == DigitRunEnd(s, i)
             e == DigitRunEnd(s, j + 2)
         IN  <<ParseInt(SubSeq(s, i, j)), ParseInt(SubSeq(s, j + 2, e))>>
    ELSE <<>>

\* RangeScore giving nothing for fewer years than the minimum.
RangeScore_nothing_below(resume_years, min_years, max_years) ==
    IF min_years <= resume_years /\ resume_years <= max_years THEN ROne
    ELSE IF resume_years < min_years THEN RZero
    ELSE Rat(9, 10)

\* The score when the range pattern matched.
RangeScore(resume_years, min_years, max_years) ==
    IF min_years <= resume_years /\ resume_years <= max_years THEN ROne
    ELSE IF resume_years < min_years
    THEN RMax(RZero, Rat(resume_years, min_years))
    ELSE Rat(9, 10)

\* KeywordScore looking for "mid" before "senior".
KeywordScore_mid_first(resume_years, low) ==
    IF Contains(low, "entry") \/ Contains(low, "junior")
    THEN (IF resume_years <= 2 THEN ROne ELSE Rat(7, 10))
    ELSE IF Contains(low, "mid")
    THEN (IF 2 <= resume_years /\ resume_years <= 5 THEN ROne ELSE Rat(6, 10))
    ELSE IF Contains(low, "senior")
    THEN (IF resume_years >= 5 THEN ROne ELSE Rat(5, 10))
    ELSE Rat(5, 10)

\* The keyword checks on the lower-cased requirement, and the default.
KeywordScore(resume_years, low) ==
    IF Contains(low, "entry") \/ Contains(low, "junior")
    THEN (IF resume_years <= 2 THEN ROne ELSE Rat(7, 10))
    ELSE IF Contains(low, "senior")
    THEN (IF resume_years >= 5 THEN ROne ELSE Rat(5, 10))
    ELSE IF Contains(low, "mid")
    THEN (IF 2 <= resume_years /\ resume_years <= 5 THEN ROne ELSE Rat(6, 10))
    ELSE Rat(5, 10)

calculate_experience_match(resume_experience, required_experience) ==
    IF resume_experience = <<>> THEN RZero
    ELSE
        LET resume_years == Len(resume_experience)
        IN  IF ~Truthy(required_experience) THEN ROne
            ELSE
                LET match == RangeSearch(required_experience.v)
                IN  IF match # <<>>
                    THEN RangeScore(resume_years, match[1], match[2])
                    ELSE KeywordScore(resume_years, Lower(required_experience.v))

\* calculate_location_match comparing the locations as written, without
\* lower-casing them.
calculate_location_match_case_sensitive(user_location, job_location) ==
    IF ~Truthy(user_location) \/ ~Truthy(job_location) THEN Rat(5, 10)
    ELSE IF Contains(job_location.v, "remote") THEN ROne
    ELSE IF user_location.v = job_location.v THEN ROne
    ELSE IF Contains(job_location.v, user_location.v)
            \/ Contains(user_location.v, job_location.v)
    THEN Rat(8, 10)
    ELSE RZero

calculate_location_match(user_location, job_location) ==
    IF ~Truthy(user_location) \/ ~Truthy(job_location) THEN Rat(5, 10)
    ELSE
        LET user_loc_lower == Lower(user_location.v)
            job_loc_lower == Lower(job_location.v)
        IN  IF Contains(job_loc_lower, "remote") THEN ROne
            ELSE IF user_loc_lower = job_loc_lower THEN ROne
            ELSE IF Contains(job_loc_lower, user_loc_lower)
                    \/ Contains(user_loc_lower, job_loc_lower)
            THEN Rat(8, 10)
            ELSE RZero

\* Returns Ok(score), or Raise for the TypeError of a comparison.
calculate_salary_match(user_min_salary, user_max_salary, job_min_salary, job_max_salary) ==
    LET TypeName(x) == IF x.t = "None" THEN "NoneType" ELSE x.t
        TypeError(op, a, b) ==
            Raise("TypeError", "'" \o op \o "' not supported between instances of '"
                               \o TypeName(a) \o "' and '" \o TypeName(b) \o "'")
        TooHighOrDefault ==
            IF user_min_salary.v > job_max_salary.v
            THEN LET gap == user_min_salary.v - job_max_salary.v
                     penalty == RMin(Rat(gap, user_min_salary.v), Rat(5, 10))
                 IN  Ok(RMax(RZero, RSub(Rat(5, 10), penalty)))
            ELSE Ok(Rat(3, 10))
    IN  IF ~Truthy(user_min_salary) \/ ~Truthy(job_max_salary) THEN Ok(Rat(5, 10))
        ELSE IF ~Comparable(user_min_salary, job_max_salary)
        THEN TypeError("<=", user_min_salary, job_max_salary)
        ELSE IF user_min_salary.v <= job_max_salary.v
        THEN
            IF Truthy(user_max_salary) /\ ~Comparable(user_max_salary, job_min_salary)
            THEN TypeError(">=", user_max_salary, job_min_salary)
            ELSE IF ~Truthy(user_max_salary) \/ user_max_salary.v >= job_min_salary.v
            THEN
                LET jmin == IF Truthy(job_min_salary) THEN job_min_salary.v ELSE 0
                    overlap_start ==
                        IF user_min_salary.v >= jmin THEN user_min_salary.v ELSE jmin
                    overlap_end ==
                        IF Truthy(user_max_salary) /\ user_max_salary.v <= job_max_salary.v
                        THEN user_max_salary.v
                        ELSE job_max_salary.v
                IN  IF overlap_end >= overlap_start THEN Ok(ROne) ELSE TooHighOrDefault
            ELSE TooHighOrDefault
        ELSE TooHighOrDefault

(***************************************************************************)
(* The end of calculate_match_score: the weighted sum with its fixed       *)
(* weights, and the rounded result.                                        *)
(***************************************************************************)
\* MatchResult with the semantic and experience weights exchanged.
MatchResult_weights_exchanged(skill, semantic, experience, location, salary) ==
    LET final_score ==
            RAdd(RAdd(RAdd(RAdd(RMul(skill, Rat(5, 10)),
                                RMul(semantic, Rat(1, 10))),
                           RMul(experience, Rat(2, 10))),
                      RMul(location, Rat(1, 10))),
                 RMul(salary, Rat(1, 10)))
    IN  [match_score |-> Round2Pct(final_score),
         score_breakdown |->
            [skill_match |-> Round2Pct(skill),
             semantic_similarity |-> Round2Pct(semantic),
             experience_match |-> Round2Pct(experience),
             location_match |-> Round2Pct(location),
             salary_match |-> Round2Pct(salary)]]

MatchResult(skill, semantic, experience, location, salary) ==
    LET final_score ==
            RAdd(RAdd(RAdd(RAdd(RMul(skill, Rat(5, 10)),
                                RMul(semantic, Rat(2, 10))),
                           RMul(experience, Rat(1, 10))),
                      RMul(location, Rat(1, 10))),
                 RMul(salary, Rat(1, 10)))
    IN  [match_score |-> Round2Pct(final_score),
         score_breakdown |->
            [skill_match |-> Round2Pct(skill),
             semantic_similarity |-> Round2Pct(semantic),
             experience_match |-> Round2Pct(experience),
             location_match |-> Round2Pct(location),
             salary_match |-> Round2Pct(salary)]]

(***************************************************************************)
(* The inputs the model draws.                                             *)
(***************************************************************************)
Max(a, b) == IF a >= b THEN a ELSE b

\* str(n) for an integer, which is also the text PostgreSQL stores when an
\* integer is assigned to a character column.
RECURSIVE StrOfNat(_)
StrOfNat(n) ==
    IF n < 10 THEN Ch(DIGITS, n + 1)
    ELSE StrOfNat(n \div 10) \o Ch(DIGITS, (n % 10) + 1)
StrOfInt(n) == IF n < 0 THEN "-" \o StrOfNat(0 - n) ELSE StrOfNat(n)

SkillNames == {"React", "react", "AWS"}
MaxSkills == 2
SkillLists == UNION {[1..k -> SkillNames] : k \in 0..MaxSkills}

SummaryValues == {PyStr(""), PyStr("Backend engineer. Builds APIs. Likes Python.")}
DescriptionValues == {PyNone, PyStr(""), PyStr("We build web apps")}

\* n experience entries, as extract_experience builds them.
ExperienceEntries(n) ==
    [i \in 1..n |-> [title |-> "Software Engineer", company |-> "Unknown",
                     duration |-> PyNone]]
ExperienceLists == {ExperienceEntries(n) : n \in 0..MaxEntries}

RangeText(lo, dash, hi) == StrOfInt(lo) \o dash \o StrOfInt(hi) \o " years"
RequiredExperienceValues ==
    {PyNone, PyStr("")}
    \cup {PyStr(RangeText(lo, dash, hi)) :
            lo \in 0..MaxYears, hi \in 0..MaxYears, dash \in {"-", EN_DASH}}
    \cup {PyStr(k) : k \in {"Entry level", "Junior developer", "Senior",
                            "Mid-level", "Mid-Senior level", "3+ years"}}

LocationValues ==
    {PyNone}
    \cup {PyStr(l) : l \in {"", "Remote", "remote (US)", "San Francisco, CA",
                            "San Francisco", "san francisco, ca", "Austin, TX",
                            "Boston, MA"}}

Salaries == (0 - NegSalary)..MaxSalary
\* A salary argument given as an int, as the signature declares it.
IntSalaryValues == {PyNone} \cup {PyInt(n) : n \in Salaries}
\* A salary as read back from Preference.min_salary / max_salary, which are
\* String columns: the request's int comes back as its decimal text.
StoredSalaryValues == {PyNone} \cup {PyStr(StrOfInt(n)) : n \in Salaries}

(***************************************************************************)
(* SpecSub: each sub-scorer called on its own with inputs drawn from the   *)
(* sets above.  call records the last call and what it returned.           *)
(***************************************************************************)
NoCall == [fn |-> "none"]

ScoreIdle ==
    /\ pc = "idle"
    /\ prefs_src = "none"
    /\ skill_score = RZero
    /\ semantic_score = RZero
    /\ experience_score = RZero
    /\ location_score = RZero
    /\ salary_score = RZero
    /\ result = [kind |-> "none"]

scoreVars == <<pc, prefs_src, skill_score, semantic_score, experience_score,
               location_score, salary_score, result>>

\* The parser and the upload route at rest.
NoParse == [filename |-> "", out |-> [kind |-> "none"]]
NoRequest == [kind |-> "none"]
NoResponse == [status |-> 0]
UploadIdle ==
    /\ parsed = NoParse
    /\ files = {}
    /\ db_resumes = {}
    /\ db_resume_skills = {}
    /\ next_uuid = 1
    /\ request = NoRequest
    /\ response = NoResponse

uploadVars == <<parsed, files, db_resumes, db_resume_skills, next_uuid, request, response>>

\* The module-level singletons as constructed, and no call in progress on
\* them.
NlpModels == {"sm", "lg"}
Unfitted == [fitted_on |-> <<>>]
NoThread == [pc |-> "idle"]
Threads == 1..2
SharedIdle ==
    /\ nlp = "sm"
    /\ clock = 0
    /\ reparsed = NoParse
    /\ vectorizer = Unfitted
    /\ threads = [t \in Threads |-> NoThread]

sharedVars == <<nlp, clock, reparsed, vectorizer, threads>>

\* The tables of the job, preference and application routes as created,
\* and no request in get_matched_jobs.
NoHandler == [pc |-> "idle"]
Requests == 1..2
RouteIdle ==
    /\ db_jobs = {}
    /\ db_matches = <<>>
    /\ db_preferences = <<>>
    /\ db_applications = <<>>
    /\ handlers = [r \in Requests |-> NoHandler]

routeVars == <<db_jobs, db_matches, db_preferences, db_applications, handlers>>

InitSub == call = NoCall /\ ScoreIdle /\ UploadIdle /\ RouteIdle /\ SharedIdle

CallSkill ==
    /\ call = NoCall
    /\ UNCHANGED <<routeVars, sharedVars, scoreVars, uploadVars>>
    /\ \E r \in SkillLists, j \in SkillLists, t \in TfidfOutcomes :
        call' = [fn |-> "skill", args |-> <<r, j, t>>,
                 ret |-> Ok(calculate_skill_match(r, j, t))]

CallSemantic ==
    /\ call = NoCall
    /\ UNCHANGED <<routeVars, sharedVars, scoreVars, uploadVars>>
    /\ \E s \in SummaryValues, d \in DescriptionValues, e \in EncoderOutcomes :
        call' = [fn |-> "semantic", args |-> <<s, d, e>>,
                 ret |-> Ok(calculate_semantic_similarity(s, d, e))]

CallExperience ==
    /\ call = NoCall
    /\ UNCHANGED <<routeVars, sharedVars, scoreVars, uploadVars>>
    /\ \E x \in ExperienceLists, q \in RequiredExperienceValues :
        call' = [fn |-> "experience", args |-> <<Len(x), q>>,
                 ret |-> Ok(calculate_experience_match(x, q))]

CallLocation ==
    /\ call = NoCall
    /\ UNCHANGED <<routeVars, sharedVars, scoreVars, uploadVars>>
    /\ \E u \in LocationValues, j \in LocationValues :
        call' = [fn |-> "location", args |-> <<u, j>>,
                 ret |-> Ok(calculate_location_match(u, j))]

CallSalary ==
    /\ call = NoCall
    /\ UNCHANGED <<routeVars, sharedVars, scoreVars, uploadVars>>
    /\ \E src \in {IntSalaryValues, StoredSalaryValues} :
        \E umin \in src, umax \in src, jmin \in IntSalaryValues, jmax \in IntSalaryValues :
            call' = [fn |-> "salary", args |-> <<umin, umax, jmin, jmax>>,
                     ret |-> calculate_salary_match(umin, umax, jmin, jmax)]

\* The caller takes the value; the next call starts from there.
SubReturn == call # NoCall /\ call' = NoCall /\ UNCHANGED <<routeVars, sharedVars, scoreVars, uploadVars>>

NextSub ==
    \/ CallSkill
    \/ CallSemantic
    \/ CallExperience
    \/ CallLocation
    \/ CallSalary
    \/ SubReturn

SpecSub == InitSub /\ [][NextSub]_vars

(***************************************************************************)
(* SpecScore: one call of calculate_match_score at a time, statement by    *)
(* statement.  Each sub-scorer is applied to every input of the sets above *)
(* and the step takes any of the values it can return; the inputs of the   *)
(* five sub-scorers are disjoint, so each step draws its own.              *)
(*                                                                         *)
(* prefs_src says what the caller passed as preferences:                   *)
(*   "none"    None;                                                       *)
(*   "direct"  a dict whose salaries are ints, as the signature of         *)
(*             calculate_salary_match declares them;                       *)
(*   "stored"  Preference.__dict__ as get_matched_jobs passes it, whose    *)
(*             min_salary and max_salary come from String columns.         *)
(***************************************************************************)
PrefsSources == {"none", "direct", "stored"}

SkillOutcomes ==
    {calculate_skill_match(r, j, t) :
        r \in SkillLists, j \in SkillLists, t \in TfidfOutcomes}

SemanticOutcomes ==
    {calculate_semantic_similarity(s, d, e) :
        s \in SummaryValues, d \in DescriptionValues, e \in EncoderOutcomes}

ExperienceOutcomes ==
    {calculate_experience_match(x, q) :
        x \in ExperienceLists, q \in RequiredExperienceValues}

\* user_location = preferences.get('location') if preferences else None
UserLocations(src) == IF src = "none" THEN {PyNone} ELSE LocationValues
LocationOutcomesNoPrefs ==
    {calculate_location_match(u, j) : u \in UserLocations("none"), j \in LocationValues}
LocationOutcomesPrefs ==
    {calculate_location_match(u, j) : u \in UserLocations("direct"), j \in LocationValues}

\* user_min_salary / user_max_salary = preferences.get(...) if preferences else None
UserSalaries(src) ==
    CASE src = "none" -> {PyNone}
      [] src = "direct" -> IntSalaryValues
      [] src = "stored" -> StoredSalaryValues
SalaryOutcomesOf(src) ==
    {calculate_salary_match(umin, umax, jmin, jmax) :
        umin \in UserSalaries(src), umax \in UserSalaries(src),
        jmin \in IntSalaryValues, jmax \in IntSalaryValues}
SalaryOutcomesNoPrefs == SalaryOutcomesOf("none")
SalaryOutcomesDirect == SalaryOutcomesOf("direct")
SalaryOutcomesStored == SalaryOutcomesOf("stored")

InitScore == call = NoCall /\ ScoreIdle /\ UploadIdle /\ RouteIdle /\ SharedIdle

\* The call starts: lines 252-268 read the inputs.
MS_Begin ==
    /\ pc = "idle"
    /\ \E src \in PrefsSources : prefs_src' = src
    /\ pc' = "skill"
    /\ skill_score' = RZero
    /\ semantic_score' = RZero
    /\ experience_score' = RZero
    /\ location_score' = RZero
    /\ salary_score' = RZero
    /\ result' = [kind |-> "none"]
    /\ UNCHANGED <<routeVars, sharedVars, call, uploadVars>>

MS_Skill ==
    /\ pc = "skill"
    /\ \E v \in SkillOutcomes : skill_score' = v
    /\ pc' = "semantic"
    /\ UNCHANGED <<routeVars, sharedVars, uploadVars, call, prefs_src, semantic_score, experience_score,
                   location_score, salary_score, result>>

MS_Semantic ==
    /\ pc = "semantic"
    /\ \E v \in SemanticOutcomes : semantic_score' = v
    /\ pc' = "experience"
    /\ UNCHANGED <<routeVars, sharedVars, uploadVars, call, prefs_src, skill_score, experience_score,
                   location_score, salary_score, result>>

MS_Experience ==
    /\ pc = "experience"
    /\ \E v \in ExperienceOutcomes : experience_score' = v
    /\ pc' = "location"
    /\ UNCHANGED <<routeVars, sharedVars, uploadVars, call, prefs_src, skill_score, semantic_score,
                   location_score, salary_score, result>>

MS_Location ==
    /\ pc = "location"
    /\ \E v \in (IF prefs_src = "none" THEN LocationOutcomesNoPrefs
                 ELSE LocationOutcomesPrefs) : location_score' = v
    /\ pc' = "salary"
    /\ UNCHANGED <<routeVars, sharedVars, uploadVars, call, prefs_src, skill_score, semantic_score,
                   experience_score, salary_score, result>>

\* calculate_salary_match returns, or its TypeError leaves calculate_match_score.
MS_Salary ==
    /\ pc = "salary"
    /\ \E r \in (CASE prefs_src = "none" -> SalaryOutcomesNoPrefs
                   [] prefs_src = "direct" -> SalaryOutcomesDirect
                   [] prefs_src = "stored" -> SalaryOutcomesStored) :
          IF r.kind = "ok"
          THEN salary_score' = r.val /\ pc' = "combine" /\ UNCHANGED result
          ELSE result' = r /\ pc' = "done" /\ UNCHANGED salary_score
    /\ UNCHANGED <<routeVars, sharedVars, uploadVars, call, prefs_src, skill_score, semantic_score,
                   experience_score, location_score>>

MS_Combine ==
    /\ pc = "combine"
    /\ result' = Ok(MatchResult(skill_score, semantic_score, experience_score,
                                location_score, salary_score))
    /\ pc' = "done"
    /\ UNCHANGED <<routeVars, sharedVars, uploadVars, call, prefs_src, skill_score, semantic_score,
                   experience_score, location_score, salary_score>>

\* The caller has the result; the matcher is ready for the next call.
MS_Return ==
    /\ pc = "done"
    /\ pc' = "idle"
    /\ prefs_src' = "none"
    /\ skill_score' = RZero
    /\ semantic_score' = RZero
    /\ experience_score' = RZero
    /\ location_score' = RZero
    /\ salary_score' = RZero
    /\ result' = [kind |-> "none"]
    /\ UNCHANGED <<routeVars, sharedVars, call, uploadVars>>

NextScore ==
    \/ MS_Begin
    \/ MS_Skill
    \/ MS_Semantic
    \/ MS_Experience
    \/ MS_Location
    \/ MS_Salary
    \/ MS_Combine
    \/ MS_Return

SpecScore == InitScore /\ [][NextScore]_vars

(***************************************************************************)
(* The resume parser.                                                      *)
(***************************************************************************)
\* ResumeParser._load_skill_database, in the order the dict is written.
skill_database ==
    <<[category |-> "Programming Languages",
       skills |-> <<"python", "java", "javascript", "typescript", "c++", "c#",
                    "ruby", "go", "rust", "php", "swift", "kotlin", "scala", "r",
                    "matlab", "perl">>],
      [category |-> "Web Frameworks",
       skills |-> <<"react", "angular", "vue", "django", "flask", "fastapi",
                    "express", "spring", "laravel", "rails", "nextjs", "nuxt",
                    "svelte">>],
      [category |-> "Databases",
       skills |-> <<"postgresql", "mysql", "mongodb", "redis", "elasticsearch",
                    "cassandra", "dynamodb", "oracle", "sql server", "sqlite",
                    "neo4j">>],
      [category |-> "Cloud Platforms",
       skills |-> <<"aws", "azure", "gcp", "google cloud", "heroku",
                    "digitalocean", "vercel", "netlify", "cloudflare">>],
      [category |-> "DevOps Tools",
       skills |-> <<"docker", "kubernetes", "jenkins", "gitlab ci",
                    "github actions", "terraform", "ansible", "circleci",
                    "travis ci">>],
      [category |-> "Data Science",
       skills |-> <<"machine learning", "deep learning", "nlp", "computer vision",
                    "tensorflow", "pytorch", "scikit-learn", "pandas", "numpy",
                    "keras">>],
      [category |-> "Other Tools",
       skills |-> <<"git", "linux", "bash", "rest api", "graphql",
                    "microservices", "agile", "scrum", "jira", "confluence">>]>>

\* \b at the gap before position i of s (1..Len(s)+1): exactly one of the two
\* neighbours is a word character; beyond either end there is none.
WordBoundary(s, i) ==
    LET before == i > 1 /\ IsWordChar(Ch(s, i - 1))
        after == i <= Len(s) /\ IsWordChar(Ch(s, i))
    IN  before # after

\* re.search(r'\b' + re.escape(skill) + r'\b', text) finds a match.
WordSearch(skill, text) ==
    \E i \in 1..(Len(text) - Len(skill) + 1) :
        /\ SubSeq(text, i, i + Len(skill) - 1) = skill
        /\ WordBoundary(text, i)
        /\ WordBoundary(text, i + Len(skill))

\* The entries of one category found in text_lower, in order.
RECURSIVE FoundIn(_, _, _)
FoundIn(category, skills, text_lower) ==
    IF skills = <<>> THEN <<>>
    ELSE (IF WordSearch(Head(skills), text_lower)
          THEN <<[skill_name |-> Title(Head(skills)), skill_category |-> category]>>
          ELSE <<>>)
         \o FoundIn(category, Tail(skills), text_lower)

RECURSIVE FoundSkills(_, _)
FoundSkills(database, text_lower) ==
    IF database = <<>> THEN <<>>
    ELSE FoundIn(Head(database).category, Head(database).skills, text_lower)
         \o FoundSkills(Tail(database), text_lower)

\* The "remove duplicates" loop: the first record of each lower-cased name.
RECURSIVE UniqueSkills(_, _)
UniqueSkills(found_skills, seen) ==
    IF found_skills = <<>> THEN <<>>
    ELSE LET key == Lower(Head(found_skills).skill_name)
         IN  IF key \in seen THEN UniqueSkills(Tail(found_skills), seen)
             ELSE <<Head(found_skills)>>
                  \o UniqueSkills(Tail(found_skills), seen \cup {key})

\* extract_skills naming each skill as the text spells it, one record per
\* spelling.
RECURSIVE SpellingsFrom(_, _, _, _, _, _)
SpellingsFrom(category, skill, text, text_lower, i, seen) ==
    LET last == Len(text) - Len(skill) + 1
        Hit(k) == /\ SubSeq(text_lower, k, k + Len(skill) - 1) = skill
                  /\ WordBoundary(text, k)
                  /\ WordBoundary(text, k + Len(skill))
    IN  IF \A k \in i..last : ~Hit(k) THEN <<>>
        ELSE LET k == CHOOSE x \in i..last : Hit(x) /\ \A m \in i..(x - 1) : ~Hit(m)
                 w == SubSeq(text, k, k + Len(skill) - 1)
             IN  (IF w \in seen THEN <<>>
                  ELSE <<[skill_name |-> w, skill_category |-> category]>>)
                 \o SpellingsFrom(category, skill, text, text_lower, k + 1,
                                  seen \cup {w})

RECURSIVE SpellingsIn(_, _, _, _)
SpellingsIn(category, skills, text, text_lower) ==
    IF skills = <<>> THEN <<>>
    ELSE SpellingsFrom(category, Head(skills), text, text_lower, 1, {})
         \o SpellingsIn(category, Tail(skills), text, text_lower)

RECURSIVE SpellingsOf(_, _, _)
SpellingsOf(database, text, text_lower) ==
    IF database = <<>> THEN <<>>
    ELSE SpellingsIn(Head(database).category, Head(database).skills, text, text_lower)
         \o SpellingsOf(Tail(database), text, text_lower)

extract_skills_as_spelled(text) == SpellingsOf(skill_database, text, Lower(text))

extract_skills(text) == UniqueSkills(FoundSkills(skill_database, Lower(text)), {})

(***************************************************************************)
(* Lines, and the regular expressions of the field extractors.             *)
(***************************************************************************)
\* text.split('\n')
RECURSIVE SplitLines(_)
SplitLines(text) ==
    IF \E i \in 1..Len(text) : Ch(text, i) = "\n"
    THEN LET i == CHOOSE k \in 1..Len(text) :
                      Ch(text, k) = "\n" /\ \A m \in 1..(k - 1) : Ch(text, m) # "\n"
         IN  <<SubSeq(text, 1, i - 1)>> \o SplitLines(SubSeq(text, i + 1, Len(text)))
    ELSE <<text>>

\* sep.join(parts)
RECURSIVE Join(_, _)
Join(parts, sep) ==
    IF parts = <<>> THEN ""
    ELSE IF Len(parts) = 1 THEN parts[1]
    ELSE parts[1] \o sep \o Join(Tail(parts), sep)

\* ' '.join(lines[max(0, i-1):min(len(lines), i+3)]) for the line at index k
\* of 1..Len(lines), which is i + 1.
Context(lines, k) ==
    Join(SubSeq(lines, Max(1, k - 1), IF k + 2 <= Len(lines) THEN k + 2 ELSE Len(lines)), " ")

\* The first position from i on that holds no whitespace (\s*).
RECURSIVE SkipSpaces(_, _)
SkipSpaces(s, i) ==
    IF i <= Len(s) /\ IsSpace(Ch(s, i)) THEN SkipSpaces(s, i + 1) ELSE i

AllDigits(s, i, j) == j <= Len(s) /\ \A k \in i..j : IsDigit(Ch(s, k))

\* The least position of 1..Len(s) + 1 at which Match(i) holds, or 0.
Leftmost(s, Match(_)) ==
    IF \E i \in 1..(Len(s) + 1) : Match(i)
    THEN CHOOSE i \in 1..(Len(s) + 1) : Match(i) /\ \A k \in 1..(i - 1) : ~Match(k)
    ELSE 0

\* re.search(r'\b(a1|a2|...)\b', s) finds a match, alts being the alternatives.
AnyWordSearch(alts, s) == \E a \in alts : WordSearch(a, s)

\* date_pattern, (\d{4})\s*[-...]\s*(\d{4}|present|current) with IGNORECASE,
\* matched at position i: <<group 1, group 2>>, or <<>>.
DateMatchAt(s, i) ==
    IF ~AllDigits(s, i, i + 3) THEN <<>>
    ELSE LET d == SkipSpaces(s, i + 4)
         IN  IF d > Len(s) \/ Ch(s, d) \notin DashClass THEN <<>>
             ELSE LET j == SkipSpaces(s, d + 1)
                  IN  IF AllDigits(s, j, j + 3)
                      THEN <<SubSeq(s, i, i + 3), SubSeq(s, j, j + 3)>>
                      ELSE IF j + 6 <= Len(s)
                              /\ Lower(SubSeq(s, j, j + 6)) \in {"present", "current"}
                      THEN <<SubSeq(s, i, i + 3), SubSeq(s, j, j + 6)>>
                      ELSE <<>>

\* re.search(date_pattern, s, re.IGNORECASE): the groups of the leftmost
\* match, or <<>>.
DateSearch(s) ==
    LET i == Leftmost(s, LAMBDA k : DateMatchAt(s, k) # <<>>)
    IN  IF i = 0 THEN <<>> ELSE DateMatchAt(s, i)

\* re.search(r'\b(19|20)\d{2}\b', s): group(0) of the leftmost match, or "".
YearSearch(s) ==
    LET At(i) == /\ AllDigits(s, i, i + 3)
                 /\ SubSeq(s, i, i + 1) \in {"19", "20"}
                 /\ WordBoundary(s, i)
                 /\ WordBoundary(s, i + 4)
        i == Leftmost(s, At)
    IN  IF i = 0 THEN "" ELSE SubSeq(s, i, i + 3)

\* The end of the longest run of characters of a class from s[i] on; i - 1
\* when s[i] is not of the class.
RunEnd(s, i, InClass(_)) ==
    CHOOSE j \in (i - 1)..Len(s) :
        /\ \A k \in i..j : InClass(Ch(s, k))
        /\ j = Len(s) \/ ~InClass(Ch(s, j + 1))

\* The greatest element of a non-empty set of integers.
Greatest(S) == CHOOSE x \in S : \A y \in S : y <= x

\* phone_pattern, \b\d{3}[-.]?\d{3}[-.]?\d{4}\b, matched at position i: the
\* position of its last character, or 0.
PhoneMatchAt(s, i) ==
    LET AfterSep(k) == IF k <= Len(s) /\ Ch(s, k) \in {"-", "."} THEN k + 1 ELSE k
        a == AfterSep(i + 3)
        b == AfterSep(a + 3)
    IN  IF /\ i <= Len(s)
           /\ WordBoundary(s, i)
           /\ AllDigits(s, i, i + 2)
           /\ AllDigits(s, a, a + 2)
           /\ AllDigits(s, b, b + 3)
           /\ WordBoundary(s, b + 4)
        THEN b + 3
        ELSE 0

\* re.search(phone_pattern, text): group(0), or "" for no match.
PhoneSearch(s) ==
    LET i == Leftmost(s, LAMBDA k : PhoneMatchAt(s, k) # 0)
    IN  IF i = 0 THEN "" ELSE SubSeq(s, i, PhoneMatchAt(s, i))

\* The classes of email_pattern: [A-Za-z0-9._%+-], [A-Za-z0-9.-], [A-Z|a-z].
IsEmailLocal(c) == IsLetter(c) \/ IsDigit(c) \/ c \in {".", "_", "%", "+", "-"}
IsEmailDomain(c) == IsLetter(c) \/ IsDigit(c) \/ c \in {".", "-"}
IsEmailTld(c) == IsLetter(c) \/ c = "|"

\* email_pattern matched at position i: the position of its last character,
\* or 0.  Each repetition is greedy: the domain gives back characters until
\* what follows it is a dot and two or more letters that end at a \b.
EmailMatchAt(s, i) ==
    IF i > Len(s) \/ ~WordBoundary(s, i) THEN 0
    ELSE
        LET at == RunEnd(s, i, IsEmailLocal) + 1
        IN  IF at = i \/ at > Len(s) \/ Ch(s, at) # "@" THEN 0
            ELSE
                LET m == RunEnd(s, at + 1, IsEmailDomain)
                    TldEnds(k) ==
                        {e \in (k + 2)..RunEnd(s, k + 1, IsEmailTld) : WordBoundary(s, e + 1)}
                    dots == {k \in (at + 2)..m : Ch(s, k) = "." /\ TldEnds(k) # {}}
                IN  IF dots = {} THEN 0 ELSE Greatest(TldEnds(Greatest(dots)))

\* re.search(email_pattern, text): group(0), or "" for no match.
EmailSearch(s) ==
    LET i == Leftmost(s, LAMBDA k : EmailMatchAt(s, k) # 0)
    IN  IF i = 0 THEN "" ELSE SubSeq(s, i, EmailMatchAt(s, i))

(***************************************************************************)
(* The spaCy pipeline.  What a loaded pipeline makes of a text is a        *)
(* function of the text: its entities, in order, and its sentences.  Two   *)
(* pipelines stand for the models that can be loaded: they know different  *)
(* names and end sentences differently.                                    *)
(***************************************************************************)
Lexicon(model) ==
    {[text |-> "Acme", label_ |-> "ORG"], [text |-> "MIT", label_ |-> "ORG"],
     [text |-> "Austin", label_ |-> "GPE"]}
    \cup (IF model = "lg" THEN {[text |-> "Python", label_ |-> "ORG"]} ELSE {})

\* doc.ents: the names of the lexicon that stand in the text as whole words.
RECURSIVE EntsFrom(_, _, _)
EntsFrom(model, text, i) ==
    LET At(k) == {e \in Lexicon(model) :
                    /\ k + Len(e.text) - 1 <= Len(text)
                    /\ SubSeq(text, k, k + Len(e.text) - 1) = e.text
                    /\ WordBoundary(text, k)
                    /\ WordBoundary(text, k + Len(e.text))}
    IN  IF \A k \in i..Len(text) : At(k) = {} THEN <<>>
        ELSE LET k == CHOOSE x \in i..Len(text) :
                          At(x) # {} /\ \A y \in i..(x - 1) : At(y) = {}
                 e == CHOOSE x \in At(k) : TRUE
             IN  <<e>> \o EntsFrom(model, text, k + Len(e.text))

\* A sentence ends at the end of the text, after . ! or ? followed by
\* whitespace, and for the larger pipeline at the end of a line.
SentenceEndsAt(model, text, e) ==
    \/ e = Len(text)
    \/ Ch(text, e) \in {".", "!", "?"} /\ IsSpace(Ch(text, e + 1))
    \/ model = "lg" /\ Ch(text, e + 1) = "\n"

\* [sent.text.strip() for sent in doc.sents]
RECURSIVE SentsFrom(_, _, _)
SentsFrom(model, text, i) ==
    IF i > Len(text) THEN <<>>
    ELSE LET e == CHOOSE k \in i..Len(text) :
                      /\ SentenceEndsAt(model, text, k)
                      /\ \A m \in i..(k - 1) : ~SentenceEndsAt(model, text, m)
             sent == Strip(SubSeq(text, i, e))
         IN  (IF sent = "" THEN <<>> ELSE <<sent>>) \o SentsFrom(model, text, e + 1)

\* self.nlp(text)
Doc(model, text) ==
    [ents |-> EntsFrom(model, text, 1), sents |-> SentsFrom(model, text, 1)]

\* [ent.text for ent in doc.ents if ent.label_ == label]
RECURSIVE EntTexts(_, _)
EntTexts(ents, label) ==
    IF ents = <<>> THEN <<>>
    ELSE (IF Head(ents).label_ = label THEN <<Head(ents).text>> ELSE <<>>)
         \o EntTexts(Tail(ents), label)

(***************************************************************************)
(* The field extractors of ResumeParser.                                   *)
(***************************************************************************)
title_keywords ==
    {"engineer", "developer", "analyst", "manager", "designer", "scientist",
     "architect", "consultant", "specialist", "lead", "senior", "junior",
     "intern", "director", "coordinator"}

\* The loop of extract_experience from line k on, experiences being the
\* entries found so far.
RECURSIVE ExperienceFrom(_, _, _, _)
ExperienceFrom(lines, k, organizations, experiences) ==
    IF k > Len(lines) THEN experiences
    ELSE IF \E keyword \in title_keywords : Contains(Lower(lines[k]), keyword)
    THEN LET date_match == DateSearch(Context(lines, k))
             experience ==
                [title |-> Strip(lines[k]),
                 company |-> IF Len(experiences) < Len(organizations)
                             THEN organizations[Len(experiences) + 1]
                             ELSE "Unknown",
                 duration |-> IF date_match # <<>>
                              THEN PyStr(date_match[1] \o " - " \o date_match[2])
                              ELSE PyNone]
         IN  ExperienceFrom(lines, k + 1, organizations, Append(experiences, experience))
    ELSE ExperienceFrom(lines, k + 1, organizations, experiences)

\* extract_experience returning every entry it found.
extract_experience_uncapped(text, doc) ==
    ExperienceFrom(SplitLines(text), 1, EntTexts(doc.ents, "ORG"), <<>>)

extract_experience(text, doc) ==
    LET experiences == ExperienceFrom(SplitLines(text), 1, EntTexts(doc.ents, "ORG"), <<>>)
    IN  SubSeq(experiences, 1, IF Len(experiences) < 10 THEN Len(experiences) ELSE 10)

\* The alternatives of the four degree_patterns.
degree_patterns ==
    {"bachelor", "b.s.", "b.a.", "bs", "ba",
     "master", "m.s.", "m.a.", "ms", "ma", "mba",
     "phd", "ph.d.", "doctorate",
     "associate", "a.s.", "a.a."}

\* The loop of extract_education from line k on; model is self.nlp.
RECURSIVE EducationFrom(_, _, _)
EducationFrom(lines, k, model) ==
    IF k > Len(lines) THEN <<>>
    ELSE IF AnyWordSearch(degree_patterns, Lower(lines[k]))
    THEN LET context == Context(lines, k)
             year == YearSearch(context)
             orgs == EntTexts(Doc(model, context).ents, "ORG")
         IN  <<[degree |-> Strip(lines[k]),
                institution |-> IF orgs # <<>> THEN PyStr(orgs[1]) ELSE PyNone,
                year |-> IF year # "" THEN PyStr(year) ELSE PyNone]>>
             \o EducationFrom(lines, k + 1, model)
    ELSE EducationFrom(lines, k + 1, model)

extract_education(text, model) == EducationFrom(SplitLines(text), 1, model)

\* extract_contact_info giving an empty string for what it did not find.
extract_contact_info_blank(text, doc) ==
    LET email == EmailSearch(text)
        phone == PhoneSearch(text)
        locations == EntTexts(doc.ents, "GPE")
    IN  [email |-> PyStr(email),
         phone |-> PyStr(phone),
         location |-> IF locations # <<>> THEN PyStr(locations[1]) ELSE PyStr("")]

extract_contact_info(text, doc) ==
    LET email == EmailSearch(text)
        phone == PhoneSearch(text)
        locations == EntTexts(doc.ents, "GPE")
    IN  [email |-> IF email # "" THEN PyStr(email) ELSE PyNone,
         phone |-> IF phone # "" THEN PyStr(phone) ELSE PyNone,
         location |-> IF locations # <<>> THEN PyStr(locations[1]) ELSE PyNone]

\* The summary falling back to the whole raw text.
Summary_whole_text(text, doc) ==
    IF Len(doc.sents) >= 3 THEN Join(SubSeq(doc.sents, 1, 3), " ") ELSE text

\* summary = ' '.join(sentences[:3]) if len(sentences) >= 3 else text[:500]
Summary(text, doc) ==
    IF Len(doc.sents) >= 3 THEN Join(SubSeq(doc.sents, 1, 3), " ")
    ELSE SubSeq(text, 1, IF Len(text) < 500 THEN Len(text) ELSE 500)

(***************************************************************************)
(* A document is what its bytes make the two PDF libraries do.  It has     *)
(* pages; each extractor reads some of them, page by page, giving the      *)
(* page's text or nothing, and either finishes or raises (before the first *)
(* page when it cannot open the bytes at all).                             *)
(***************************************************************************)
PageTexts == {"Python Developer", "uses python and Go, going", "  "}
PlumberReads == {"text", "none"}     \* page.extract_text() gives text or None
PypdfReads == {"text", "empty"}      \* page.extract_text() gives text or ""
PlumberErrors == {"No /Root object"}
PypdfErrors == {"EOF marker not found"}

Behaviours(n, reads, errors) ==
    {[reads |-> r, fails |-> FALSE, error |-> ""] : r \in [1..n -> reads]}
    \cup {[reads |-> r, fails |-> TRUE, error |-> e] :
            r \in UNION {[1..k -> reads] : k \in 0..Max(n - 1, 0)}, e \in errors}

Contents ==
    UNION {[pages : [1..n -> PageTexts],
            plumber : Behaviours(n, PlumberReads, PlumberErrors),
            pypdf : Behaviours(n, PypdfReads, PypdfErrors)] : n \in 0..MaxPages}

\* A resume of one page, with a line for each thing the extractors look for.
ResumePage ==
    "Jane Roe\njane.roe@mail.example.com 555-123-4567\nSenior Engineer, Acme\n"
    \o "2019 - present\nBS Computer Science, MIT 2015\n"
    \o "Lives in Austin. Builds APIs in Python. Likes Go."
ResumeDocuments ==
    [pages : {<<ResumePage>>},
     plumber : Behaviours(1, PlumberReads, PlumberErrors),
     pypdf : Behaviours(1, PypdfReads, PypdfErrors)]

(***************************************************************************)
(* Texts built line by line for the field extractors: lines that hold a    *)
(* title keyword, lines that name an organization, sentences, degrees, and *)
(* texts that hold none of them.                                           *)
(***************************************************************************)
MaxTitleLines == 11
MaxOrganizations == 3
MaxSentences == 4

TitleLines ==
    <<"Senior Engineer", "Python Developer", "  Data Analyst", "Product Manager",
      "UX Designer", "Research Scientist", "Architect", "IT Consultant",
      "International Sales", "Team Lead", "Junior Clerk", "Director">>
OrganizationNames == <<"Acme", "MIT">>
TitleLine(k) == TitleLines[((k - 1) % Len(TitleLines)) + 1]
OrganizationName(k) == OrganizationNames[((k - 1) % Len(OrganizationNames)) + 1]

Layouts == {"before", "after", "inline", "dated"}

\* n title lines and m organizations: the organizations on lines of their
\* own before or after the titles, or each on the line of a title, or
\* before titles that are each followed by a line with a date range.
ExperienceLines(n, m, layout) ==
    LET organizations == [k \in 1..m |-> OrganizationName(k)]
        titles == [k \in 1..n |-> IF layout = "inline" /\ k <= m
                                  THEN TitleLine(k) \o ", " \o OrganizationName(k)
                                  ELSE TitleLine(k)]
    IN  CASE layout = "before" -> organizations \o titles
          [] layout = "after" -> titles \o organizations
          [] layout = "inline" -> titles \o SubSeq(organizations, n + 1, m)
          [] layout = "dated" ->
                organizations
                \o [i \in 1..(2 * n) |-> IF i % 2 = 1 THEN titles[(i + 1) \div 2]
                                         ELSE "2019 - 2021"]

ExperienceTexts ==
    {Join(ExperienceLines(n, m, layout), "\n") :
        n \in 0..MaxTitleLines, m \in 0..MaxOrganizations, layout \in Layouts}

Sentences ==
    <<"Builds APIs", "Lives in Austin", "Likes Go", "Worked at Acme", "Reads a lot">>
SentenceEnds == {".", "!", ""}
SentenceSeparators == {" ", "\n"}
\* k sentences, each closed by end and parted from the next by sep.
SentenceText(k, end, sep) ==
    Join([i \in 1..k |-> Sentences[((i - 1) % Len(Sentences)) + 1] \o end], sep)
SentenceTexts ==
    {SentenceText(k, end, sep) :
        k \in 0..MaxSentences, end \in SentenceEnds, sep \in SentenceSeparators}

\* A text of one sentence that is longer than the 500 characters of the
\* summary, and the same text with a second sentence in front.
Twice(s) == s \o s
LongText == Twice(Twice(Twice(Twice(Twice(Twice("plain words "))))))
LongTexts == {LongText, "Prose. " \o LongText}

EducationTexts ==
    {"BS Computer Science", "MBA, MIT 2015", "Ph.D. Physics\nAcme\n1999",
     "Junior Clerk\nMS Finance"}
BareTexts == {"Jane Roe", "jane.roe@mail.example.com", "555-123-4567", "Austin"}

FieldTexts ==
    SentenceTexts \cup LongTexts \cup EducationTexts \cup BareTexts
    \cup {Join(ExperienceLines(n, m, layout), "\n") :
            n \in 1..2, m \in 0..1, layout \in Layouts}

\* A document of one page that pdfplumber reads.
FieldDocument(text) ==
    [pages |-> <<text>>,
     plumber |-> [reads |-> <<"text">>, fails |-> FALSE, error |-> ""],
     pypdf |-> [reads |-> <<"text">>, fails |-> FALSE, error |-> ""]]
FieldDocuments == {FieldDocument(text) : text \in FieldTexts}

\* The pdfplumber loop: text += page_text + "\n" for each page with text.
RECURSIVE PlumberText(_, _, _)
PlumberText(pages, reads, i) ==
    IF i > Len(reads) THEN ""
    ELSE (IF reads[i] = "text" /\ pages[i] # "" THEN pages[i] \o "\n" ELSE "")
         \o PlumberText(pages, reads, i + 1)

\* The PyPDF2 loop: text += page.extract_text() + "\n" for each page.
RECURSIVE PypdfText(_, _, _)
PypdfText(pages, reads, i) ==
    IF i > Len(reads) THEN ""
    ELSE (IF reads[i] = "text" THEN pages[i] ELSE "") \o "\n"
         \o PypdfText(pages, reads, i + 1)

\* extract_text_from_pdf swallowing the fallback's failure and returning the
\* text read so far.
extract_text_from_pdf_swallowing(file_content) ==
    LET primary == PlumberText(file_content.pages, file_content.plumber.reads, 1)
    IN  IF ~file_content.plumber.fails
        THEN [ret |-> Ok(Strip(primary)), steps |-> <<"pdfplumber">>]
        ELSE IF file_content.pypdf.fails
        THEN [ret |-> Ok(Strip(primary)), steps |-> <<"pdfplumber", "PyPDF2">>]
        ELSE [ret |-> Ok(Strip(primary \o PypdfText(file_content.pages,
                                                    file_content.pypdf.reads, 1))),
              steps |-> <<"pdfplumber", "PyPDF2">>]

\* Returns [ret, steps]: what the call returns or raises, and the extractors
\* it tried, in order.
extract_text_from_pdf(file_content) ==
    LET primary == PlumberText(file_content.pages, file_content.plumber.reads, 1)
    IN  IF ~file_content.plumber.fails
        THEN [ret |-> Ok(Strip(primary)), steps |-> <<"pdfplumber">>]
        ELSE
            \* except Exception: the fallback goes on from the text read so far
            LET text == primary
                        \o PypdfText(file_content.pages, file_content.pypdf.reads, 1)
            IN  IF file_content.pypdf.fails
                THEN [ret |-> Raise("ValueError",
                                    "Failed to extract text from PDF: "
                                    \o file_content.pypdf.error),
                      steps |-> <<"pdfplumber", "PyPDF2">>]
                ELSE [ret |-> Ok(Strip(text)), steps |-> <<"pdfplumber", "PyPDF2">>]

\* Every text extraction can give, and the skills of each: extract_skills is
\* a function of the text alone.
ExtractedTexts ==
    {extract_text_from_pdf(c).ret.val :
        c \in {d \in Contents \cup ResumeDocuments \cup FieldDocuments :
                  extract_text_from_pdf(d).ret.kind = "ok"}}
SkillsOfText == [t \in ExtractedTexts |-> extract_skills(t)]

\* The fields each pipeline gives for each text.
Fields(text, model, doc) ==
    [experience |-> extract_experience(text, doc),
     education |-> extract_education(text, model),
     contact |-> extract_contact_info(text, doc),
     summary |-> Summary(text, doc)]
FieldsOfText ==
    [model \in NlpModels |-> [t \in ExtractedTexts |-> Fields(t, model, Doc(model, t))]]

\* The profile parse builds from the extracted text: doc = self.nlp(text),
\* the extractors, the summary and the time of the call.
ProfileOf(text, skills, fields, parsed_at) ==
    [raw_text |-> text,
     skills |-> skills,
     experience |-> fields.experience,
     education |-> fields.education,
     contact |-> fields.contact,
     summary |-> fields.summary,
     parsed_at |-> parsed_at]
Profile(text) == ProfileOf(text, SkillsOfText[text], FieldsOfText[nlp][text], clock)

\* parse extracting the text first and looking at the file name afterwards.
parse_extracting_first(file_content, filename) ==
    LET x == extract_text_from_pdf(file_content)
    IN  IF x.ret.kind = "raise" THEN x
        ELSE IF ~EndsWith(Lower(filename), ".pdf")
        THEN [ret |-> Raise("ValueError", "Only PDF files are supported currently"),
              steps |-> x.steps]
        ELSE [ret |-> Ok(Profile(x.ret.val)), steps |-> x.steps \o <<"nlp">>]

\* parse keeping the skills it found in the call before and adding to them.
parse_remembering(file_content, filename) ==
    IF EndsWith(Lower(filename), ".pdf")
    THEN
        LET x == extract_text_from_pdf(file_content)
            before == IF parsed # NoParse /\ parsed.out.ret.kind = "ok"
                      THEN parsed.out.ret.val.skills
                      ELSE <<>>
        IN  IF x.ret.kind = "raise" THEN x
            ELSE [ret |-> Ok([Profile(x.ret.val) EXCEPT !.skills = before \o @]),
                  steps |-> x.steps \o <<"nlp">>]
    ELSE [ret |-> Raise("ValueError", "Only PDF files are supported currently"),
          steps |-> <<>>]

\* ResumeParser.parse, as [ret, steps]: what it returns or raises, and the
\* extractors and the NLP step it went through.
parse(file_content, filename) ==
    IF EndsWith(Lower(filename), ".pdf")
    THEN
        LET x == extract_text_from_pdf(file_content)
        IN  IF x.ret.kind = "raise" THEN x
            ELSE [ret |-> Ok(Profile(x.ret.val)), steps |-> x.steps \o <<"nlp">>]
    ELSE [ret |-> Raise("ValueError", "Only PDF files are supported currently"),
          steps |-> <<>>]

Filenames ==
    {"cv.pdf", "CV.PDF", "cv.doc", "cv.docx", "cv.pdf.txt", ".pdf"}

(***************************************************************************)
(* SpecParse: parse called on any document under any file name.            *)
(***************************************************************************)
InitParse == call = NoCall /\ ScoreIdle /\ UploadIdle /\ RouteIdle /\ SharedIdle

CallParse ==
    /\ parsed = NoParse
    /\ \E c \in Contents, f \in Filenames :
          parsed' = [filename |-> f, content |-> c, out |-> parse(c, f)]
    /\ UNCHANGED <<routeVars, sharedVars, call, scoreVars, files, db_resumes, db_resume_skills,
                   next_uuid, request, response>>

ParseReturn ==
    /\ parsed # NoParse
    /\ parsed' = NoParse
    /\ UNCHANGED <<routeVars, sharedVars, call, scoreVars, files, db_resumes, db_resume_skills,
                   next_uuid, request, response>>

NextParse ==
    \/ CallParse
    \/ ParseReturn

SpecParse == InitParse /\ [][NextParse]_vars

(***************************************************************************)
(* SpecReparse: parse called, and called again later on the same bytes     *)
(* under the same file name, by whichever pipeline the parser loaded.      *)
(***************************************************************************)
ReparseDocuments == ResumeDocuments \cup {c \in Contents : Len(c.pages) <= 1}

InitReparse ==
    /\ call = NoCall /\ ScoreIdle /\ UploadIdle /\ RouteIdle
    /\ nlp \in NlpModels
    /\ clock = 0
    /\ reparsed = NoParse
    /\ vectorizer = Unfitted
    /\ threads = [t \in Threads |-> NoThread]

FirstParse ==
    /\ parsed = NoParse
    /\ \E c \in ReparseDocuments, f \in Filenames :
          parsed' = [filename |-> f, content |-> c, out |-> parse(c, f)]
    /\ UNCHANGED <<routeVars, call, scoreVars, files, db_resumes, db_resume_skills, next_uuid,
                   request, response, nlp, clock, reparsed, vectorizer, threads>>

\* Time passes.
Tick ==
    /\ clock < MaxClock
    /\ clock' = clock + 1
    /\ UNCHANGED <<routeVars, call, scoreVars, uploadVars, nlp, reparsed, vectorizer, threads>>

SecondParse ==
    /\ parsed # NoParse
    /\ reparsed = NoParse
    /\ reparsed' = [filename |-> parsed.filename, content |-> parsed.content,
                    out |-> parse(parsed.content, parsed.filename)]
    /\ UNCHANGED <<routeVars, call, scoreVars, uploadVars, nlp, clock, vectorizer, threads>>

NextReparse ==
    \/ FirstParse
    \/ Tick
    \/ SecondParse

SpecReparse == InitReparse /\ [][NextReparse]_vars

(***************************************************************************)
(* SpecExtract: extract_skills called on short texts that name skills,     *)
(* some of them spelled with characters that are no letters or digits.     *)
(***************************************************************************)
SkillWords == {"C++", "c#", "Go", "going", "Python", "c++11"}
WordSeparators == {" ", ", ", "/"}
SkillTexts ==
    {""} \cup SkillWords
    \cup {a \o sep \o b : a \in SkillWords, b \in SkillWords, sep \in WordSeparators}

InitExtract == call = NoCall /\ ScoreIdle /\ UploadIdle /\ RouteIdle /\ SharedIdle

CallExtractSkills ==
    /\ call = NoCall
    /\ \E text \in SkillTexts :
          call' = [fn |-> "extract_skills", args |-> <<text>>,
                   ret |-> Ok(extract_skills(text))]
    /\ UNCHANGED <<routeVars, sharedVars, scoreVars, uploadVars>>

ExtractSkillsReturn ==
    /\ call # NoCall
    /\ call' = NoCall
    /\ UNCHANGED <<routeVars, sharedVars, scoreVars, uploadVars>>

NextExtract ==
    \/ CallExtractSkills
    \/ ExtractSkillsReturn

SpecExtract == InitExtract /\ [][NextExtract]_vars

(***************************************************************************)
(* SpecFields: the parser, with whichever pipeline it loaded, called on    *)
(* the texts built line by line: extract_experience on the texts of title  *)
(* lines and organizations, parse on one-page documents of the others.     *)
(***************************************************************************)
InitFields ==
    /\ call = NoCall /\ ScoreIdle /\ UploadIdle /\ RouteIdle
    /\ nlp \in NlpModels
    /\ clock = 0
    /\ reparsed = NoParse
    /\ vectorizer = Unfitted
    /\ threads = [t \in Threads |-> NoThread]

ExperienceCall(text, doc) ==
    [fn |-> "extract_experience", args |-> <<text, doc>>,
     ret |-> Ok(extract_experience(text, doc))]

CallExtractExperience ==
    /\ call = NoCall /\ parsed = NoParse
    /\ \E text \in ExperienceTexts : call' = ExperienceCall(text, Doc(nlp, text))
    /\ UNCHANGED <<routeVars, sharedVars, scoreVars, uploadVars>>

ExtractExperienceReturn ==
    /\ call # NoCall
    /\ call' = NoCall
    /\ UNCHANGED <<routeVars, sharedVars, scoreVars, uploadVars>>

ParseFields ==
    /\ call = NoCall /\ parsed = NoParse
    /\ \E c \in FieldDocuments :
          parsed' = [filename |-> "cv.pdf", content |-> c, out |-> parse(c, "cv.pdf")]
    /\ UNCHANGED <<routeVars, sharedVars, call, scoreVars, files, db_resumes, db_resume_skills,
                   next_uuid, request, response>>

ParseFieldsReturn ==
    /\ parsed # NoParse
    /\ parsed' = NoParse
    /\ UNCHANGED <<routeVars, sharedVars, call, scoreVars, files, db_resumes, db_resume_skills,
                   next_uuid, request, response>>

NextFields ==
    \/ CallExtractExperience
    \/ ExtractExperienceReturn
    \/ ParseFields
    \/ ParseFieldsReturn

SpecFields == InitFields /\ [][NextFields]_vars

(***************************************************************************)
(* SpecConc: calculate_match_score called from two threads on the one      *)
(* job_matcher.  The call reaches self.tfidf_vectorizer.fit_transform,     *)
(* which first fits the shared vectorizer on the call's two documents and  *)
(* then transforms them with what the vectorizer holds.  A transform that  *)
(* finds the vectorizer fitted on other documents is a race: it can fail   *)
(* or give any cosine.                                                     *)
(***************************************************************************)
ConcSkillLists == {<<"React">>, <<"React", "AWS">>}

\* What fit_transform and the cosine give for the two documents when no
\* other call touches the vectorizer: a function of the documents, 1 for
\* equal documents, 0 for documents with no common term, and a value in
\* between otherwise, for which 1/2 stands.
TfidfAlone(resume_skills, job_skills) ==
    IF LowerAll(resume_skills) = LowerAll(job_skills) THEN Ok(ROne)
    ELSE IF LowerAll(resume_skills) \cap LowerAll(job_skills) = {} THEN Ok(RZero)
    ELSE Ok(Rat(1, 2))

\* calculate_match_score for a resume and a job that give only skills, with
\* no preferences, tfidf being what the vectorizer gave.
ConcMatchScore(resume_skills, job_skills, tfidf) ==
    MatchResult(calculate_skill_match(resume_skills, job_skills, tfidf),
                calculate_semantic_similarity(PyStr(""), PyStr(""), LibraryError),
                calculate_experience_match(<<>>, PyStr("")),
                calculate_location_match(PyNone, PyNone),
                calculate_salary_match(PyNone, PyNone, PyNone, PyNone).val)

InitConc ==
    /\ call = NoCall /\ ScoreIdle /\ UploadIdle /\ RouteIdle
    /\ nlp = "sm"
    /\ clock = 0
    /\ reparsed = NoParse
    /\ vectorizer = Unfitted
    /\ threads = [t \in Threads |-> NoThread]

\* A thread enters calculate_match_score and comes to fit_transform.
ConcCall(t) ==
    /\ threads[t].pc = "idle"
    /\ \E r \in ConcSkillLists, j \in ConcSkillLists :
          threads' = [threads EXCEPT ![t] =
                        [pc |-> "fit", resume_skills |-> r, job_skills |-> j]]
    /\ UNCHANGED <<routeVars, call, scoreVars, uploadVars, nlp, clock, reparsed, vectorizer>>

\* fit_transform fits the shared vectorizer on the call's documents.
ConcFit(t) ==
    /\ threads[t].pc = "fit"
    /\ vectorizer' = [fitted_on |-> <<threads[t].resume_skills, threads[t].job_skills>>]
    /\ threads' = [threads EXCEPT ![t].pc = "transform"]
    /\ UNCHANGED <<routeVars, call, scoreVars, uploadVars, nlp, clock, reparsed>>

\* fit_transform transforms the documents with what the vectorizer holds,
\* and the call goes on to its result.
ConcTransform(t) ==
    /\ threads[t].pc = "transform"
    /\ LET r == threads[t].resume_skills
           j == threads[t].job_skills
       IN  \E tfidf \in (IF vectorizer.fitted_on = <<r, j>>
                          THEN {TfidfAlone(r, j)} ELSE TfidfOutcomes) :
              threads' = [threads EXCEPT ![t] =
                            [pc |-> "done", resume_skills |-> r, job_skills |-> j,
                             ret |-> ConcMatchScore(r, j, tfidf)]]
    /\ UNCHANGED <<routeVars, call, scoreVars, uploadVars, nlp, clock, reparsed, vectorizer>>

ConcReturn(t) ==
    /\ threads[t].pc = "done"
    /\ threads' = [threads EXCEPT ![t] = NoThread]
    /\ UNCHANGED <<routeVars, call, scoreVars, uploadVars, nlp, clock, reparsed, vectorizer>>

ThreadCalls == \E t \in Threads : ConcCall(t)
ThreadFits == \E t \in Threads : ConcFit(t)
ThreadTransforms == \E t \in Threads : ConcTransform(t)
ThreadReturns == \E t \in Threads : ConcReturn(t)

NextConc ==
    \/ ThreadCalls
    \/ ThreadFits
    \/ ThreadTransforms
    \/ ThreadReturns

SpecConc == InitConc /\ [][NextConc]_vars

(***************************************************************************)
(* The upload route, POST /api/resumes/upload.                             *)
(***************************************************************************)
MAX_FILE_SIZE == 5242880
ALLOWED_EXTENSIONS == {".pdf", ".doc", ".docx"}

HTTP_201_CREATED == 201
HTTP_400_BAD_REQUEST == 400
HTTP_500_INTERNAL_SERVER_ERROR == 500

\* pathlib's Path(name).suffix for a bare file name: from the last dot, unless
\* that dot is the first or the last character.
PathSuffix(name) ==
    LET dots == {i \in 1..Len(name) : Ch(name, i) = "."}
    IN  IF dots = {} THEN ""
        ELSE LET i == CHOOSE k \in dots : \A m \in dots : m <= k
             IN  IF 1 < i /\ i < Len(name) THEN SubSeq(name, i, Len(name)) ELSE ""

\* validate_file: the HTTPException it raises, or Ok.
validate_file(filename, size) ==
    LET file_ext == Lower(PathSuffix(filename))
    IN  IF file_ext \notin ALLOWED_EXTENSIONS
        THEN \* the detail goes on with the set, in the order the run prints it
             Raise("HTTPException",
                   "File type " \o file_ext \o " not allowed. Allowed types: ")
        ELSE IF size > MAX_FILE_SIZE
        THEN Raise("HTTPException", "File too large. Maximum size: 5.0MB")
        ELSE Ok(TRUE)

\* The resume and skill rows of a parsed resume, added to the stores.
Stored(user, file_path, parsed_data, written, rs, sk, uuid) ==
    [files |-> written,
     resumes |-> rs \cup {[id |-> uuid + 1, user_id |-> user, file_url |-> file_path,
                           raw_text |-> parsed_data.raw_text,
                           parsed_data |-> parsed_data]},
     skills |-> sk \cup {[resume_id |-> uuid + 1,
                          skill_name |-> parsed_data.skills[i].skill_name,
                          skill_category |-> parsed_data.skills[i].skill_category] :
                            i \in DOMAIN parsed_data.skills},
     uuid |-> uuid + 2,
     response |-> [status |-> HTTP_201_CREATED, detail |-> ""]]

\* What upload_resume leaves, valid being what validate_file gave and out
\* what parse gave; on_failure is the set of files left when parse raised.
Handled(valid, out, user, file_path, fs, on_failure, rs, sk, uuid) ==
    IF valid.kind = "raise"
    THEN [files |-> fs, resumes |-> rs, skills |-> sk, uuid |-> uuid,
          response |-> [status |-> HTTP_400_BAD_REQUEST, detail |-> valid.msg]]
    ELSE IF out.ret.kind = "raise"
    THEN [files |-> on_failure, resumes |-> rs, skills |-> sk, uuid |-> uuid + 1,
          response |-> [status |-> HTTP_500_INTERNAL_SERVER_ERROR,
                        detail |-> "Failed to parse resume: " \o out.ret.msg]]
    ELSE Stored(user, file_path, out.ret.val, fs \cup {file_path}, rs, sk, uuid)

FilePath(uuid, filename) == "uploads/" \o StrOfNat(uuid) \o PathSuffix(filename)

\* upload_resume leaving the file it wrote when parsing fails.
upload_resume_keeping_file(user, filename, size, file_content, fs, rs, sk, uuid) ==
    Handled(validate_file(filename, size), parse(file_content, filename), user,
            FilePath(uuid, filename), fs, fs \cup {FilePath(uuid, filename)}, rs, sk, uuid)

\* upload_resume as a function of the request and the stores it finds:
\* the stores it leaves and its response.  uuid is the next uuid4 value.
\* When parse raises, the file written is removed again:
\* if file_path.exists(): os.remove(file_path).
upload_resume(user, filename, size, file_content, fs, rs, sk, uuid) ==
    Handled(validate_file(filename, size), parse(file_content, filename), user,
            FilePath(uuid, filename), fs,
            (fs \cup {FilePath(uuid, filename)}) \ {FilePath(uuid, filename)},
            rs, sk, uuid)

Users == {"u1", "u2"}
FileSizes == {1, MAX_FILE_SIZE, MAX_FILE_SIZE + 1}
\* The documents uploaded: the one-page documents of one text, read or not
\* by either extractor, and the bytes neither can open.
UploadDocuments ==
    UNION {[pages : [1..n -> {"uses python and Go, going"}],
            plumber : Behaviours(n, PlumberReads, PlumberErrors),
            pypdf : Behaviours(n, PypdfReads, PypdfErrors)] : n \in 0..1}

(***************************************************************************)
(* SpecUpload: upload requests handled one at a time.                      *)
(***************************************************************************)
InitUpload == call = NoCall /\ ScoreIdle /\ UploadIdle /\ RouteIdle /\ SharedIdle

\* The stores and the response become what the handler left.
Leaves(o) ==
    /\ files' = o.files
    /\ db_resumes' = o.resumes
    /\ db_resume_skills' = o.skills
    /\ next_uuid' = o.uuid
    /\ response' = o.response

Upload ==
    /\ request = NoRequest
    /\ next_uuid < 2 * MaxUploads
    /\ \E u \in Users, f \in Filenames, z \in FileSizes, c \in UploadDocuments :
          /\ request' = [user |-> u, filename |-> f, size |-> z, content |-> c]
          /\ Leaves(upload_resume(u, f, z, c, files, db_resumes, db_resume_skills,
                                  next_uuid))
    /\ UNCHANGED <<routeVars, sharedVars, call, scoreVars, parsed>>

\* The response is sent; the next request can be handled.
UploadRespond ==
    /\ request # NoRequest
    /\ request' = NoRequest
    /\ response' = NoResponse
    /\ UNCHANGED <<routeVars, sharedVars, call, scoreVars, parsed, files, db_resumes, db_resume_skills, next_uuid>>

NextUpload ==
    \/ Upload
    \/ UploadRespond

SpecUpload == InitUpload /\ [][NextUpload]_vars

(***************************************************************************)
(* The job, preference and application routes.  Each request has its own   *)
(* database session; what a session adds reaches the tables when the       *)
(* session commits.  The clock reads seconds.                              *)
(***************************************************************************)
DAY == 86400
HTTP_404_NOT_FOUND == 404

MaxDays == 1
\* The instants a day apart and those a second before them.
Times == {0} \cup UNION {{d * DAY - 1, d * DAY} : d \in 1..MaxDays}

\* What get_mock_jobs gives seed_jobs_if_empty: two of its postings, with
\* the columns calculate_match_score reads and salaries on the scale of
\* the model.
MockJobs ==
    {[id |-> "j1", title |-> "Frontend Developer", required_skills |-> <<"React">>,
      description |-> PyStr("We build web apps"),
      experience_required |-> PyStr("2-4 years"), location |-> PyStr("Remote"),
      salary_min |-> PyInt(1), salary_max |-> PyInt(3)],
     [id |-> "j2", title |-> "Senior Full Stack Engineer",
      required_skills |-> <<"React", "AWS">>,
      description |-> PyStr("We build web apps"),
      experience_required |-> PyStr("5-8 years"),
      location |-> PyStr("San Francisco, CA"),
      salary_min |-> PyInt(2), salary_max |-> PyInt(3)]}
JobIds == {job.id : job \in MockJobs}

\* seed_jobs_if_empty: the mock jobs are stored when the table is empty.
seed_jobs_if_empty(jobs) == IF jobs = {} THEN MockJobs ELSE jobs

\* db.query(Job).all(): the rows in an order the query does not fix.
AllOrders(rows) ==
    {s \in [1..Cardinality(rows) -> rows] : \A i, j \in DOMAIN s : i # j => s[i] # s[j]}

\* The parsed_data of the resumes users upload, with the keys
\* calculate_match_score reads.
MatchedProfiles ==
    {[skills |-> <<[skill_name |-> "React", skill_category |-> "Web Frameworks"]>>,
      summary |-> "", experience |-> <<>>],
     [skills |-> <<[skill_name |-> "React", skill_category |-> "Web Frameworks"],
                   [skill_name |-> "Aws", skill_category |-> "Cloud Platforms"]>>,
      summary |-> "Builds web apps",
      experience |-> ExperienceEntries(3)]}

\* The sentence encoder and the vectorizer on two texts when no other call
\* interferes: functions of the texts.
EncoderAlone(resume_summary, job_description) ==
    IF resume_summary = job_description THEN Ok(ROne) ELSE Ok(Rat(1, 2))

\* JobMatcher.calculate_match_score: Ok(result), or the exception of the
\* salary scorer, which the method does not catch.
calculate_match_score(resume_data, job_data, preferences) ==
    LET resume_skills ==
            [i \in DOMAIN resume_data.skills |-> resume_data.skills[i].skill_name]
        user_location == IF preferences # PyNone THEN preferences.location ELSE PyNone
        user_min_salary == IF preferences # PyNone THEN preferences.min_salary ELSE PyNone
        user_max_salary == IF preferences # PyNone THEN preferences.max_salary ELSE PyNone
        salary == calculate_salary_match(user_min_salary, user_max_salary,
                                         job_data.salary_min, job_data.salary_max)
    IN  IF salary.kind = "raise" THEN salary
        ELSE Ok(MatchResult(
                calculate_skill_match(resume_skills, job_data.required_skills,
                                      TfidfAlone(resume_skills, job_data.required_skills)),
                calculate_semantic_similarity(
                    PyStr(resume_data.summary), job_data.description,
                    EncoderAlone(resume_data.summary, job_data.description.v)),
                calculate_experience_match(resume_data.experience,
                                           job_data.experience_required),
                calculate_location_match(user_location, job_data.location),
                salary.val))

(***************************************************************************)
(* create_preferences and update_preferences.  A request sets some of the  *)
(* fields of PreferenceCreate; min_salary and max_salary are String        *)
(* columns, which give an int back as its decimal text.                    *)
(***************************************************************************)
PreferenceFields ==
    {"desired_role", "desired_skills", "experience_level", "location",
     "min_salary", "max_salary"}

PreferenceRequests ==
    {[location |-> PyStr("Remote")],
     [min_salary |-> PyInt(2)],
     [desired_role |-> PyStr("Engineer"), location |-> PyNone]}

\* The value a column holds after the value was stored.
ColumnValue(field, value) ==
    IF field \in {"min_salary", "max_salary"} /\ value.t = "int"
    THEN PyStr(StrOfInt(value.v))
    ELSE value

SameValue(a, b) == a.t = b.t /\ (a.t = "None" \/ a.v = b.v)

\* pref_data.model_dump(): every field, None for those not set.
model_dump(pref_data) ==
    [f \in PreferenceFields |-> IF f \in DOMAIN pref_data THEN pref_data[f] ELSE PyNone]

\* Preference(user_id=..., **fields), stored at time now.
PreferenceRow(user, fields, now) ==
    [f \in PreferenceFields \cup {"user_id", "updated_at"} |->
        CASE f = "user_id" -> user
          [] f = "updated_at" -> now
          [] OTHER -> ColumnValue(f, fields[f])]

\* setattr(preference, key, value) for the fields the request sets, then
\* commit: updated_at follows the clock when a value changed.
SetFields(preference, pref_data, now) ==
    [f \in DOMAIN preference |->
        CASE f \in DOMAIN pref_data -> ColumnValue(f, pref_data[f])
          [] f = "updated_at" ->
                IF \E g \in DOMAIN pref_data : ~SameValue(pref_data[g], preference[g])
                THEN now ELSE preference.updated_at
          [] OTHER -> preference[f]]

\* The positions of the user's rows in the table.
PreferencesOf(preferences, user) ==
    {i \in DOMAIN preferences : preferences[i].user_id = user}
FirstOf(positions) == CHOOSE i \in positions : \A j \in positions : i <= j

\* create_preferences adding a row whether the user has one or not.
create_preferences_adding(preferences, user, pref_data, now) ==
    [preferences |-> Append(preferences, PreferenceRow(user, model_dump(pref_data), now)),
     status |-> HTTP_201_CREATED,
     body |-> PreferenceRow(user, model_dump(pref_data), now)]

\* The routes give [preferences, status, body]: the table they leave and
\* the response.
create_preferences(preferences, user, pref_data, now) ==
    IF PreferencesOf(preferences, user) # {}
    THEN [preferences |->
            [preferences EXCEPT ![FirstOf(PreferencesOf(preferences, user))] =
                SetFields(@, pref_data, now)],
          status |-> HTTP_201_CREATED,
          body |-> SetFields(preferences[FirstOf(PreferencesOf(preferences, user))],
                             pref_data, now)]
    ELSE [preferences |-> Append(preferences,
                                 PreferenceRow(user, model_dump(pref_data), now)),
          status |-> HTTP_201_CREATED,
          body |-> PreferenceRow(user, model_dump(pref_data), now)]

update_preferences(preferences, user, pref_data, now) ==
    IF PreferencesOf(preferences, user) = {}
    THEN [preferences |-> preferences,
          status |-> HTTP_404_NOT_FOUND,
          body |-> "Preferences not found. Please create preferences first."]
    ELSE [preferences |->
            [preferences EXCEPT ![FirstOf(PreferencesOf(preferences, user))] =
                SetFields(@, pref_data, now)],
          status |-> 200,
          body |-> SetFields(preferences[FirstOf(PreferencesOf(preferences, user))],
                             pref_data, now)]

(***************************************************************************)
(* create_application.                                                     *)
(***************************************************************************)
\* The job ids a request can name: those of the mock jobs and one of no job.
RequestedJobIds == JobIds \cup {"j0"}

ApplicationsOf(applications, user, job_id) ==
    {i \in DOMAIN applications :
        applications[i].user_id = user /\ applications[i].job_id = job_id}

\* create_application storing the application without looking for one.
create_application_unchecked(applications, jobs, user, job_id, now) ==
    IF \A job \in jobs : job.id # job_id
    THEN [applications |-> applications, status |-> HTTP_404_NOT_FOUND,
          detail |-> "Job not found"]
    ELSE [applications |->
            Append(applications, [user_id |-> user, job_id |-> job_id,
                                  status |-> "applied", applied_at |-> now,
                                  updated_at |-> now]),
          status |-> HTTP_201_CREATED, detail |-> ""]

\* The route gives [applications, status, detail].
create_application(applications, jobs, user, job_id, now) ==
    IF \A job \in jobs : job.id # job_id
    THEN [applications |-> applications, status |-> HTTP_404_NOT_FOUND,
          detail |-> "Job not found"]
    ELSE IF ApplicationsOf(applications, user, job_id) # {}
    THEN [applications |-> applications, status |-> HTTP_400_BAD_REQUEST,
          detail |-> "You have already applied to this job"]
    ELSE [applications |->
            Append(applications, [user_id |-> user, job_id |-> job_id,
                                  status |-> "applied", applied_at |-> now,
                                  updated_at |-> now]),
          status |-> HTTP_201_CREATED, detail |-> ""]

(***************************************************************************)
(* get_matched_jobs.  A request in the loop over all_jobs is a record of   *)
(* its arguments and locals: k is the position of the next job, added the  *)
(* Match objects of the session not flushed yet, flushed those flushed     *)
(* (with the calculated_at the flush gave them), and autoflush tells       *)
(* whether the session flushes before a query or only at the commit.       *)
(***************************************************************************)
\* The query parameters of a request; min_score is in hundredths of a
\* point, as match_score is.
MatchedQueries ==
    {[page |-> 1, page_size |-> 2, min_score |-> 0],
     [page |-> 1, page_size |-> 1, min_score |-> 0],
     [page |-> 2, page_size |-> 1, min_score |-> 0],
     [page |-> 1, page_size |-> 2, min_score |-> 4000]}

\* The user's resumes uploaded last: order_by(uploaded_at.desc()).first()
\* gives one of them.
LatestResumes(resumes, user) ==
    {x \in resumes : /\ x.user_id = user
                     /\ \A y \in resumes : y.user_id = user => y.uploaded_at <= x.uploaded_at}

\* The matches of the pair calculated last, by position in the table.
LatestMatches(matches, user, job_id) ==
    {i \in DOMAIN matches :
        /\ matches[i].user_id = user /\ matches[i].job_id = job_id
        /\ \A j \in DOMAIN matches :
              (matches[j].user_id = user /\ matches[j].job_id = job_id)
                  => matches[j].calculated_at <= matches[i].calculated_at}

NoMatch == [user_id |-> "", job_id |-> ""]
\* What the query for existing_match can give.
ExistingMatches(matches, user, job_id) ==
    IF LatestMatches(matches, user, job_id) = {} THEN {NoMatch}
    ELSE {matches[i] : i \in LatestMatches(matches, user, job_id)}

\* The test reusing a match for an hour only.
Reusable_within_the_hour(existing_match, now) ==
    existing_match # NoMatch /\ now - existing_match.calculated_at < 3600

\* The test never reusing a match.
Reusable_never(existing_match, now) == FALSE

\* existing_match and (utcnow() - existing_match.calculated_at).total_seconds() < 86400
Reusable(existing_match, now) ==
    existing_match # NoMatch /\ now - existing_match.calculated_at < DAY

JobData(job) ==
    [required_skills |-> job.required_skills, description |-> job.description,
     experience_required |-> job.experience_required, location |-> job.location,
     salary_min |-> job.salary_min, salary_max |-> job.salary_max]

JobDict(job, match_result) ==
    [id |-> job.id, title |-> job.title, description |-> job.description,
     location |-> job.location, salary_min |-> job.salary_min,
     salary_max |-> job.salary_max, experience_required |-> job.experience_required,
     required_skills |-> job.required_skills,
     match_score |-> match_result.match_score,
     score_breakdown |-> match_result.score_breakdown]

\* The flush gives each added Match its calculated_at, the default utcnow.
Flush(added, now) ==
    [i \in DOMAIN added |->
        [user_id |-> added[i].user_id, job_id |-> added[i].job_id,
         match_score |-> added[i].match_score,
         score_breakdown |-> added[i].score_breakdown,
         calculated_at |-> now]]

\* The request after the body of the loop for one job, match_result being
\* the stored or the new result and match the objects given to db.add.
Visited(h, job, match_result, match) ==
    [h EXCEPT !.k = @ + 1,
              !.match_result = match_result,
              !.added = @ \o match,
              !.matched_jobs =
                    IF match_result.match_score >= h.min_score
                    THEN Append(@, JobDict(job, match_result)) ELSE @]

\* The request that an exception ends: the session is closed without a
\* commit and the client gets a server error.
Failed(h, exception) ==
    [pc |-> "done", user |-> h.user, page |-> h.page, page_size |-> h.page_size,
     min_score |-> h.min_score, inserted |-> <<>>,
     status |-> HTTP_500_INTERNAL_SERVER_ERROR, detail |-> exception.msg]

\* The body of the loop for the job at k, the query having given
\* existing_match at time now.
VisitJob(h, job, existing_match, now, score) ==
    IF Reusable(existing_match, now)
    THEN Visited(h, job, [match_score |-> existing_match.match_score,
                          score_breakdown |-> existing_match.score_breakdown], <<>>)
    ELSE IF score.kind = "raise" THEN Failed(h, score)
    ELSE Visited(h, job, score.val,
                 <<[user_id |-> h.user, job_id |-> job.id,
                    match_score |-> score.val.match_score,
                    score_breakdown |-> score.val.score_breakdown]>>)

\* The session before a query: with autoflush what was added is flushed.
BeforeQuery(h, now) ==
    IF h.autoflush
    THEN [h EXCEPT !.flushed = @ \o Flush(h.added, now), !.added = <<>>]
    ELSE h

\* The list left as the loop built it.
SortByScore_unsorted(jobs) == jobs

\* list.sort(key=match_score, reverse=True): stable, greatest first.
RECURSIVE SortByScore(_)
SortByScore(jobs) ==
    IF jobs = <<>> THEN <<>>
    ELSE LET sorted == SortByScore(SubSeq(jobs, 1, Len(jobs) - 1))
             last == jobs[Len(jobs)]
             before == Cardinality({i \in DOMAIN sorted :
                                        sorted[i].match_score >= last.match_score})
         IN  SubSeq(sorted, 1, before) \o <<last>> \o SubSeq(sorted, before + 1, Len(sorted))

\* matched_jobs[offset:offset + page_size]
Paginate(jobs, page, page_size) ==
    SubSeq(jobs, (page - 1) * page_size + 1,
           IF page * page_size < Len(jobs) THEN page * page_size ELSE Len(jobs))

\* A commit under a constraint that lets a pair have one match of an age
\* under a day.
CommitRows_unique(matches, rows) ==
    matches \o SelectSeq(rows, LAMBDA row :
                    \A i \in DOMAIN matches :
                        (matches[i].user_id = row.user_id /\ matches[i].job_id = row.job_id)
                            => row.calculated_at - matches[i].calculated_at >= DAY)

\* The rows db.commit() stores.
CommitRows(matches, rows) == matches \o rows

\* The request after db.commit(), the sort and the pagination.
Committed(h, rows) ==
    [pc |-> "done", user |-> h.user, page |-> h.page, page_size |-> h.page_size,
     min_score |-> h.min_score, inserted |-> rows,
     status |-> 200,
     matched_jobs |-> SortByScore(h.matched_jobs),
     body |-> Paginate(SortByScore(h.matched_jobs), h.page, h.page_size)]

\* The request enters: the jobs are seeded, and the resume, the preferences
\* and the jobs are read.
Entered(user, page, page_size, min_score, resume, preferences, all_jobs, autoflush) ==
    [pc |-> "loop", user |-> user, page |-> page, page_size |-> page_size,
     min_score |-> min_score, resume_data |-> resume.parsed_data,
     preferences |-> preferences, all_jobs |-> all_jobs, k |-> 1,
     match_result |-> PyNone, autoflush |-> autoflush,
     added |-> <<>>, flushed |-> <<>>, matched_jobs |-> <<>>]

NoResume(user, page, page_size, min_score) ==
    [pc |-> "done", user |-> user, page |-> page, page_size |-> page_size,
     min_score |-> min_score, inserted |-> <<>>,
     status |-> HTTP_400_BAD_REQUEST,
     detail |-> "Please upload a resume first to see matched jobs"]

\* The user's stored preferences, or None.
StoredPreferences(preferences, user) ==
    IF PreferencesOf(preferences, user) = {} THEN PyNone
    ELSE preferences[FirstOf(PreferencesOf(preferences, user))]

\* The users who ask for their matched jobs.
MatchedUsers == {"u1"}

MatchedBegin(r, queries) ==
    /\ handlers[r].pc = "idle"
    /\ db_jobs' = seed_jobs_if_empty(db_jobs)
    /\ \E user \in MatchedUsers, q \in queries :
          IF LatestResumes(db_resumes, user) = {}
          THEN handlers' = [handlers EXCEPT ![r] =
                              NoResume(user, q.page, q.page_size, q.min_score)]
          ELSE \E resume \in LatestResumes(db_resumes, user),
                  all_jobs \in AllOrders(seed_jobs_if_empty(db_jobs)),
                  autoflush \in BOOLEAN :
                  handlers' = [handlers EXCEPT ![r] =
                                 Entered(user, q.page, q.page_size, q.min_score, resume,
                                         StoredPreferences(db_preferences, user),
                                         all_jobs, autoflush)]
    /\ UNCHANGED <<call, scoreVars, uploadVars, sharedVars, db_matches, db_preferences,
                   db_applications>>

MatchedJob(r) ==
    /\ handlers[r].pc = "loop"
    /\ handlers[r].k <= Len(handlers[r].all_jobs)
    /\ \E existing_match \in ExistingMatches(db_matches, handlers[r].user,
                                             handlers[r].all_jobs[handlers[r].k].id) :
          handlers' = [handlers EXCEPT ![r] =
                         VisitJob(BeforeQuery(handlers[r], clock),
                                  handlers[r].all_jobs[handlers[r].k],
                                  existing_match, clock,
                                  calculate_match_score(
                                      handlers[r].resume_data,
                                      JobData(handlers[r].all_jobs[handlers[r].k]),
                                      handlers[r].preferences))]
    /\ UNCHANGED <<call, scoreVars, uploadVars, sharedVars, db_jobs, db_matches,
                   db_preferences, db_applications>>

MatchedCommit(r) ==
    /\ handlers[r].pc = "loop"
    /\ handlers[r].k > Len(handlers[r].all_jobs)
    /\ db_matches' = CommitRows(db_matches, handlers[r].flushed
                                            \o Flush(handlers[r].added, clock))
    /\ handlers' = [handlers EXCEPT ![r] =
                      Committed(handlers[r],
                                handlers[r].flushed \o Flush(handlers[r].added, clock))]
    /\ UNCHANGED <<call, scoreVars, uploadVars, sharedVars, db_jobs, db_preferences,
                   db_applications>>

MatchedRespond(r) ==
    /\ handlers[r].pc = "done"
    /\ handlers' = [handlers EXCEPT ![r] = NoHandler]
    /\ UNCHANGED <<call, scoreVars, uploadVars, sharedVars, db_jobs, db_matches,
                   db_preferences, db_applications>>

\* The requests the routes other than SpecMatched's are followed over: at
\* one moment and a day later.
Moments == {0, DAY}

\* Time passes.
Pass(times) ==
    /\ \E t \in times : t > clock /\ clock' = t
    /\ UNCHANGED <<call, scoreVars, uploadVars, routeVars, nlp, reparsed, vectorizer,
                   threads>>

\* upload_resume stores a resume of the user (SpecUpload has the route):
\* the row with its parsed_data and its uploaded_at, for which the number
\* of the upload stands, the uploads being ordered by it.  A user uploads
\* a profile once.
StoreResume ==
    /\ \E user \in MatchedUsers, parsed_data \in MatchedProfiles :
          /\ \A row \in db_resumes :
                row.user_id = user => row.parsed_data # parsed_data
          /\ db_resumes' =
                db_resumes \cup {[user_id |-> user, parsed_data |-> parsed_data,
                                  uploaded_at |-> Cardinality(db_resumes) + 1]}
    /\ UNCHANGED <<call, scoreVars, sharedVars, routeVars, parsed, files,
                   db_resume_skills, next_uuid, request, response>>

\* create_preferences called for a user.
CreatePreferences(users, requests) ==
    /\ call = NoCall
    /\ \E user \in users, pref_data \in requests :
          /\ call' = [fn |-> "create_preferences", args |-> <<user, pref_data>>,
                      before |-> db_preferences, now |-> clock,
                      ret |-> create_preferences(db_preferences, user, pref_data, clock)]
          /\ db_preferences' =
                create_preferences(db_preferences, user, pref_data, clock).preferences
    /\ UNCHANGED <<scoreVars, uploadVars, sharedVars, db_jobs, db_matches,
                   db_applications, handlers>>

UpdatePreferences(users, requests) ==
    /\ call = NoCall
    /\ \E user \in users, pref_data \in requests :
          /\ call' = [fn |-> "update_preferences", args |-> <<user, pref_data>>,
                      before |-> db_preferences, now |-> clock,
                      ret |-> update_preferences(db_preferences, user, pref_data, clock)]
          /\ db_preferences' =
                update_preferences(db_preferences, user, pref_data, clock).preferences
    /\ UNCHANGED <<scoreVars, uploadVars, sharedVars, db_jobs, db_matches,
                   db_applications, handlers>>

\* The response is sent.
RouteRespond ==
    /\ call # NoCall
    /\ call' = NoCall
    /\ UNCHANGED <<scoreVars, uploadVars, sharedVars, routeVars>>

\* create_application called for a user and a job id.
CreateApplication ==
    /\ call = NoCall
    /\ \E user \in Users, job_id \in RequestedJobIds :
          /\ call' = [fn |-> "create_application", args |-> <<user, job_id>>,
                      before |-> db_applications, jobs |-> db_jobs,
                      now |-> clock,
                      ret |-> create_application(db_applications, db_jobs, user,
                                                 job_id, clock)]
          /\ db_applications' =
                create_application(db_applications, db_jobs, user, job_id,
                                   clock).applications
    /\ UNCHANGED <<scoreVars, uploadVars, sharedVars, db_jobs, db_matches,
                   db_preferences, handlers>>

InitRoutes == call = NoCall /\ ScoreIdle /\ UploadIdle /\ RouteIdle /\ SharedIdle

(***************************************************************************)
(* SpecMatched: get_matched_jobs handling one request at a time, while     *)
(* time passes and the user uploads resumes.                               *)
(***************************************************************************)
NextMatched ==
    \/ Pass(Times)
    \/ StoreResume
    \/ MatchedBegin(1, MatchedQueries)
    \/ MatchedJob(1)
    \/ MatchedCommit(1)
    \/ MatchedRespond(1)

SpecMatched == InitRoutes /\ [][NextMatched]_vars

(***************************************************************************)
(* SpecSalaried: get_matched_jobs for a user who may have set a salary or  *)
(* a location preference.                                                  *)
(***************************************************************************)
SalariedRequests == {[min_salary |-> PyInt(2)], [location |-> PyStr("Remote")]}
SalariedQueries == {[page |-> 1, page_size |-> 2, min_score |-> 0]}

NextSalaried ==
    \/ Pass(Moments)
    \/ StoreResume
    \/ CreatePreferences(MatchedUsers, SalariedRequests)
    \/ RouteRespond
    \/ MatchedBegin(1, SalariedQueries)
    \/ MatchedJob(1)
    \/ MatchedCommit(1)
    \/ MatchedRespond(1)

SpecSalaried == InitRoutes /\ [][NextSalaried]_vars

(***************************************************************************)
(* SpecRace: two requests of get_matched_jobs handled at the same time by  *)
(* two workers, each with its session.                                     *)
(***************************************************************************)
NextRace ==
    \/ StoreResume
    \/ \E r \in Requests : MatchedBegin(r, SalariedQueries)
    \/ \E r \in Requests : MatchedJob(r)
    \/ \E r \in Requests : MatchedCommit(r)
    \/ \E r \in Requests : MatchedRespond(r)

SpecRace == InitRoutes /\ [][NextRace]_vars

(***************************************************************************)
(* SpecApply: create_application called by two users, the jobs being       *)
(* seeded by the first request for matched jobs.                           *)
(***************************************************************************)
NextApply ==
    \/ Pass(Moments)
    \/ MatchedBegin(1, SalariedQueries)
    \/ MatchedRespond(1)
    \/ CreateApplication
    \/ RouteRespond

SpecApply == InitRoutes /\ [][NextApply]_vars

(***************************************************************************)
(* SpecPrefs: create_preferences and update_preferences called by two      *)
(* users.                                                                  *)
(***************************************************************************)
NextPrefs ==
    \/ Pass(Moments)
    \/ CreatePreferences(Users, PreferenceRequests)
    \/ UpdatePreferences(Users, PreferenceRequests)
    \/ RouteRespond

SpecPrefs == InitRoutes /\ [][NextPrefs]_vars

(***************************************************************************)
(* Properties of the scoring engine.                                       *)
(***************************************************************************)
InUnitInterval(r) == RLe(RZero, r) /\ RLe(r, ROne)
InPercentRange(h) == 0 <= h /\ h <= 10000

\* C1: whenever calculate_match_score returns, match_score and each of the
\* five score_breakdown values lie in [0, 100] (0..10000 hundredths).
C1_ResultInRange ==
    (pc = "done" /\ result.kind = "ok") =>
        /\ InPercentRange(result.val.match_score)
        /\ InPercentRange(result.val.score_breakdown.skill_match)
        /\ InPercentRange(result.val.score_breakdown.semantic_similarity)
        /\ InPercentRange(result.val.score_breakdown.experience_match)
        /\ InPercentRange(result.val.score_breakdown.location_match)
        /\ InPercentRange(result.val.score_breakdown.salary_match)

\* C2: calculate_match_score never raises: every call that ends, ends with a
\* result, whatever was absent and however the preferences were passed.
C2_NeverRaises == (pc = "done") => result.kind = "ok"

\* C3: the result is the fixed weighted sum: match_score is
\* round((skill*0.5 + semantic*0.2 + experience*0.1 + location*0.1 +
\* salary*0.1) * 100, 2), the weights sum to 1, and each breakdown entry is
\* its sub-score times 100 rounded to 2 decimals.
C3_WeightedSum ==
    (pc = "done" /\ result.kind = "ok") =>
        LET weighted ==
                Rat(50 * skill_score.n * semantic_score.d * experience_score.d
                       * location_score.d * salary_score.d
                    + 20 * semantic_score.n * skill_score.d * experience_score.d
                       * location_score.d * salary_score.d
                    + 10 * experience_score.n * skill_score.d * semantic_score.d
                       * location_score.d * salary_score.d
                    + 10 * location_score.n * skill_score.d * semantic_score.d
                       * experience_score.d * salary_score.d
                    + 10 * salary_score.n * skill_score.d * semantic_score.d
                       * experience_score.d * location_score.d,
                    100 * skill_score.d * semantic_score.d * experience_score.d
                       * location_score.d * salary_score.d)
        IN  /\ 50 + 20 + 10 + 10 + 10 = 100
            /\ result.val.match_score = Round2Pct(weighted)
            /\ result.val.score_breakdown =
                 [skill_match |-> Round2Pct(skill_score),
                  semantic_similarity |-> Round2Pct(semantic_score),
                  experience_match |-> Round2Pct(experience_score),
                  location_match |-> Round2Pct(location_score),
                  salary_match |-> Round2Pct(salary_score)]

\* A call that returned a score whose sub-scores are all different and whose
\* rounding is not exact: 0.5*0.35 + 0.2*0.5 + 0.1/3 + 0.1*0.8 + 0.1/6.
C3_Witness ==
    /\ pc = "done"
    /\ result.kind = "ok"
    /\ skill_score = Rat(35, 100)
    /\ semantic_score = Rat(1, 2)
    /\ experience_score = Rat(1, 3)
    /\ location_score = Rat(8, 10)
    /\ salary_score = Rat(1, 6)
    /\ result.val.match_score = 4050
    /\ result.val.score_breakdown.experience_match = 3333
    /\ result.val.score_breakdown.salary_match = 1667

\* C4: every sub-scorer call that returns, returns a value in [0, 1].
C4_SubScoreInUnitInterval ==
    (call # NoCall /\ call.ret.kind = "ok") => InUnitInterval(call.ret.val)

\* The declared format of a file is PDF when its name ends in ".pdf", in any
\* letter case.
DeclaredPdf(filename) == EndsWith(Lower(filename), ".pdf")

\* C5: parse called with a file name that does not declare PDF raises the
\* unsupported-format error having tried no extractor and no NLP step, and
\* returns no profile.
C5_UnsupportedFormatImmediate ==
    (parsed # NoParse /\ ~DeclaredPdf(parsed.filename)) =>
        /\ parsed.out.ret = Raise("ValueError", "Only PDF files are supported currently")
        /\ parsed.out.steps = <<>>

\* A word-processor file name on a document both extractors read in full.
C5_Witness ==
    /\ parsed # NoParse
    /\ parsed.filename = "cv.docx"
    /\ Len(parsed.content.pages) = 2
    /\ ~parsed.content.plumber.fails
    /\ parsed.out.ret.kind = "raise"
    /\ parsed.out.steps = <<>>

\* C6: when both the primary and the secondary extractor fail on a PDF, parse
\* raises the extraction error, whose message carries the secondary
\* extractor's error; no text and no profile is returned, whatever the pages
\* read before the failures.
C6_BothExtractorsFail ==
    (/\ parsed # NoParse
     /\ DeclaredPdf(parsed.filename)
     /\ parsed.content.plumber.fails
     /\ parsed.content.pypdf.fails) =>
        /\ parsed.out.ret.kind = "raise"
        /\ parsed.out.ret.exc = "ValueError"
        /\ parsed.out.ret.msg = "Failed to extract text from PDF: "
                                \o parsed.content.pypdf.error
        /\ parsed.out.steps = <<"pdfplumber", "PyPDF2">>

\* Both extractors failed after each had read the text of the first page.
C6_Witness ==
    /\ parsed # NoParse
    /\ parsed.filename = "cv.pdf"
    /\ parsed.content.plumber.fails
    /\ parsed.content.pypdf.fails
    /\ parsed.content.plumber.reads = <<"text">>
    /\ parsed.content.pypdf.reads = <<"text">>
    /\ parsed.content.pages[1] = "Python Developer"
    /\ parsed.out.ret = Raise("ValueError",
                              "Failed to extract text from PDF: EOF marker not found")

\* C9: in every profile parse returns, no two skill records have the same
\* name under case-insensitive comparison; and when the text contains both
\* the word "Python" and the word "python", exactly one record is the
\* skill python, and it is named "Python".
C9_UniqueSkillNames ==
    (parsed # NoParse /\ parsed.out.ret.kind = "ok") =>
        LET skills == parsed.out.ret.val.skills
            text == parsed.out.ret.val.raw_text
        IN  /\ \A i, j \in DOMAIN skills :
                  Lower(skills[i].skill_name) = Lower(skills[j].skill_name) => i = j
            /\ (WordSearch("Python", text) /\ WordSearch("python", text)) =>
                  /\ Cardinality({i \in DOMAIN skills :
                                    Lower(skills[i].skill_name) = "python"}) = 1
                  /\ \E i \in DOMAIN skills : skills[i].skill_name = "Python"

\* A profile from a text with "Python" on one page and "python" on the next.
C9_Witness ==
    /\ parsed # NoParse
    /\ parsed.out.ret.kind = "ok"
    /\ parsed.out.ret.val.raw_text = "Python Developer\nuses python and Go, going"
    /\ parsed.out.ret.val.skills =
          <<[skill_name |-> "Python", skill_category |-> "Programming Languages"],
            [skill_name |-> "Go", skill_category |-> "Programming Languages"]>>

\* C7: an upload whose file name does not declare PDF is answered with a
\* client error (4xx).
C7_NonPdfIsClientError ==
    (request # NoRequest /\ ~DeclaredPdf(request.filename)) =>
        (400 <= response.status /\ response.status <= 499)

\* The request validate_file accepts: an allowed extension and a size within
\* the limit.
Accepted(r) ==
    /\ Lower(PathSuffix(r.filename)) \in {".pdf", ".doc", ".docx"}
    /\ r.size <= 5 * 1024 * 1024

\* C8: an accepted upload whose parsing fails is answered with status 500,
\* and the step that handles it leaves the stored files, the Resume records
\* and the ResumeSkill records as they were.
C8_FailedParseLeavesNothing ==
    [][(/\ request = NoRequest
        /\ request' # NoRequest
        /\ Accepted(request')
        /\ parse(request'.content, request'.filename).ret.kind = "raise") =>
            (/\ response'.status = 500
             /\ files' = files
             /\ db_resumes' = db_resumes
             /\ db_resume_skills' = db_resume_skills)]_vars

\* A PDF neither extractor could read, uploaded after an upload that was
\* stored: the earlier file and records are all there is.
C8_Witness ==
    /\ request # NoRequest
    /\ request.filename = "cv.pdf"
    /\ request.content.plumber.fails
    /\ request.content.pypdf.fails
    /\ response.status = 500
    /\ Cardinality(files) = 1
    /\ Cardinality(db_resumes) = 1
    /\ db_resume_skills # {}

\* The ordered rule of C10, with Absent(x) deciding what "absent" covers.
LocationRule(u, j, Absent(_)) ==
    IF Absent(u) \/ Absent(j) THEN Rat(1, 2)
    ELSE IF Contains(Lower(j.v), "remote") THEN ROne
    ELSE IF Lower(u.v) = Lower(j.v) THEN ROne
    ELSE IF Contains(Lower(j.v), Lower(u.v)) \/ Contains(Lower(u.v), Lower(j.v))
    THEN Rat(4, 5)
    ELSE RZero

IsNone(x) == x = PyNone
IsNoneOrEmpty(x) == x = PyNone \/ x = PyStr("")

\* C10 as stated: calculate_location_match is the ordered rule, giving 0.5
\* only when a location is absent (None).
C10_LocationRule_AbsentIsNone ==
    (call # NoCall /\ call.fn = "location") =>
        call.ret = Ok(LocationRule(call.args[1], call.args[2], IsNone))

\* C10 amended: calculate_location_match is the ordered rule, giving 0.5 when
\* a location is absent or the empty string; then 1.0 for a job location
\* containing "remote", 1.0 for case-insensitive equality, 0.8 for
\* case-insensitive containment either way, else 0.0.
C10_LocationRule ==
    (call # NoCall /\ call.fn = "location") =>
        call.ret = Ok(LocationRule(call.args[1], call.args[2], IsNoneOrEmpty))

\* "San Francisco, CA" against "San Francisco" scored 0.8.
C10_Witness ==
    /\ call # NoCall
    /\ call.fn = "location"
    /\ call.args = <<PyStr("San Francisco"), PyStr("San Francisco, CA")>>
    /\ call.ret = Ok(Rat(8, 10))

(***************************************************************************)
(* Properties of the salary and experience sub-scorers.                    *)
(***************************************************************************)
\* A bound that is absent, or a non-negative int.
NonNegBound(x) == x = PyNone \/ (x.t = "int" /\ x.v >= 0)

\* The salary rule of C11 on bounds that are None or non-negative ints.
SalaryRule(cmin, cmax, jmin, jmax) ==
    IF cmin = PyNone \/ jmax = PyNone THEN Rat(1, 2)
    ELSE
        LET overlap_start == IF jmin # PyNone /\ jmin.v > cmin.v THEN jmin.v ELSE cmin.v
            overlap_end == IF cmax # PyNone /\ cmax.v < jmax.v THEN cmax.v ELSE jmax.v
        IN  IF /\ cmin.v <= jmax.v
               /\ (cmax = PyNone \/ jmin = PyNone \/ cmax.v >= jmin.v)
               /\ overlap_end >= overlap_start
            THEN ROne
            ELSE IF cmin.v > jmax.v
            THEN RMax(RZero, RSub(Rat(1, 2),
                                  RMin(Rat(cmin.v - jmax.v, cmin.v), Rat(1, 2))))
            ELSE Rat(3, 10)

\* C11: for every combination of absent or non-negative int bounds, a bound
\* of 0 counting as present and an absent job minimum as no lower limit,
\* calculate_salary_match returns the value of the salary rule.
C11_SalaryRule ==
    (/\ call # NoCall
     /\ call.fn = "salary"
     /\ \A k \in 1..4 : NonNegBound(call.args[k])) =>
        call.ret = Ok(SalaryRule(call.args[1], call.args[2], call.args[3], call.args[4]))

\* C12: with at least one experience entry and a requirement "min-max
\* years" written with an ASCII hyphen, calculate_experience_match returns
\* 1.0 when min <= years <= max, else years/min when years < min, else 0.9.
C12_RangeRule ==
    (call # NoCall /\ call.fn = "experience" /\ call.args[1] >= 1) =>
        \A lo, hi \in 0..MaxYears :
            call.args[2] = PyStr(RangeText(lo, "-", hi)) =>
                LET years == call.args[1]
                IN  call.ret = Ok(IF lo <= years /\ years <= hi THEN ROne
                                  ELSE IF years < lo THEN Rat(years, lo)
                                  ELSE Rat(9, 10))

\* One entry against "2-5 years" scored 0.5.
C12_Witness ==
    /\ call # NoCall
    /\ call.fn = "experience"
    /\ call.args = <<1, PyStr("2-5 years")>>
    /\ call.ret = Ok(Rat(1, 2))

\* C17: for every entry count, min and max, calculate_experience_match
\* returns for the range written with an en-dash what it returns for the
\* range written with an ASCII hyphen.
C17_EnDashLikeHyphen ==
    (call # NoCall /\ call.fn = "experience") =>
        \A lo, hi \in 0..MaxYears :
            call.args[2] = PyStr(RangeText(lo, EN_DASH, hi)) =>
                call.ret = Ok(calculate_experience_match(
                                  ExperienceEntries(call.args[1]),
                                  PyStr(RangeText(lo, "-", hi))))

\* A requirement that is no range of years, in either spelling of the dash.
NoRangeWritten(q) ==
    \A lo, hi \in 0..MaxYears, dash \in {"-", EN_DASH} : q # PyStr(RangeText(lo, dash, hi))

\* C18: calculate_experience_match returns 0 when there are no entries,
\* whatever the requirement; else 1.0 when the requirement is empty; else,
\* when the requirement holds no range, what the first of the keywords
\* entry/junior, senior, mid found in it gives, and 0.5 when none is found.
C18_NonRangeRules ==
    (call # NoCall /\ call.fn = "experience" /\ NoRangeWritten(call.args[2])) =>
        LET years == call.args[1]
            q == call.args[2]
            Has(word) == Contains(Lower(q.v), word)
        IN  call.ret =
              Ok(IF years = 0 THEN RZero
                 ELSE IF q = PyNone \/ q = PyStr("") THEN ROne
                 ELSE IF Has("entry") \/ Has("junior")
                 THEN (IF years <= 2 THEN ROne ELSE Rat(7, 10))
                 ELSE IF Has("senior")
                 THEN (IF years >= 5 THEN ROne ELSE Rat(5, 10))
                 ELSE IF Has("mid")
                 THEN (IF 2 <= years /\ years <= 5 THEN ROne ELSE Rat(6, 10))
                 ELSE Rat(5, 10))

\* Three entries against "Mid-Senior level": "senior" decides before "mid".
C18_Witness ==
    /\ call # NoCall
    /\ call.fn = "experience"
    /\ call.args = <<3, PyStr("Mid-Senior level")>>
    /\ call.ret = Ok(Rat(1, 2))

\* C19: calculate_semantic_similarity returns 0 when the summary or the
\* description is empty, whatever the encoder would do; 0 when the encoder
\* fails; and otherwise the cosine similarity brought into [0, 1].
C19_SemanticRule ==
    (call # NoCall /\ call.fn = "semantic") =>
        LET resume_summary == call.args[1]
            job_description == call.args[2]
            encoder == call.args[3]
        IN  call.ret =
              Ok(IF IsNoneOrEmpty(resume_summary) \/ IsNoneOrEmpty(job_description)
                 THEN RZero
                 ELSE IF encoder = LibraryError THEN RZero
                 ELSE IF RLt(encoder.val, RZero) THEN RZero
                 ELSE IF RLt(ROne, encoder.val) THEN ROne
                 ELSE encoder.val)

\* A cosine that rounding put above 1 came back as 1.
C19_Witness ==
    /\ call # NoCall
    /\ call.fn = "semantic"
    /\ call.args[1] = PyStr("Backend engineer. Builds APIs. Likes Python.")
    /\ call.args[2] = PyStr("We build web apps")
    /\ call.args[3] = Ok(Rat(101, 100))
    /\ call.ret = Ok(ROne)

C14_NoSharedMutableState ==
    /\ vectorizer = Unfitted
    /\ \A t \in Threads :
          threads[t].pc = "done" =>
              threads[t].ret = ConcMatchScore(threads[t].resume_skills,
                                              threads[t].job_skills,
                                              TfidfAlone(threads[t].resume_skills,
                                                         threads[t].job_skills))

\* C15: on a PDF the secondary extractor is tried when the primary one raises
\* or returns empty text, and only then.
C15_SecondaryOnFailureOrEmpty ==
    (parsed # NoParse /\ DeclaredPdf(parsed.filename)) =>
        LET primary == PlumberText(parsed.content.pages, parsed.content.plumber.reads, 1)
            tried == \E k \in 1..Len(parsed.out.steps) : parsed.out.steps[k] = "PyPDF2"
        IN  tried <=> (parsed.content.plumber.fails \/ Strip(primary) = "")

\* C16: calculate_skill_match returns 0 if either list is empty; otherwise,
\* with R and J the sets of lower-cased resume and job skill names,
\* exact = |R \cap J| / |J| and the result is min(0.7*exact + 0.3*secondary, 1),
\* secondary being exact when the vectorizer fails.
C16_SkillRule ==
    (call.fn = "skill") =>
        LET resume_skills == call.args[1]
            job_skills == call.args[2]
            tfidf == call.args[3]
            R == LowerAll(resume_skills)
            J == LowerAll(job_skills)
            exact == Rat(Cardinality(R \cap J), Cardinality(J))
            secondary == IF tfidf.kind = "raise" THEN exact ELSE tfidf.val
        IN  call.ret = Ok(IF resume_skills = <<>> \/ job_skills = <<>> THEN RZero
                          ELSE RMin(RAdd(RMul(Rat(7, 10), exact),
                                         RMul(Rat(3, 10), secondary)), ROne))

\* The entry stands in s with no letter, digit or underscore next to it.
OccursAsWholeWord(entry, s) ==
    \E i \in 1..(Len(s) - Len(entry) + 1) :
        /\ SubSeq(s, i, i + Len(entry) - 1) = entry
        /\ i = 1 \/ ~IsWordChar(Ch(s, i - 1))
        /\ i + Len(entry) > Len(s) \/ ~IsWordChar(Ch(s, i + Len(entry)))

\* C20: extract_skills records an entry of the taxonomy, under its category,
\* exactly when the entry stands in the lower-cased text as a whole word;
\* this for every entry, "c++" and "c#" included.
C20_WholeWordRecorded ==
    (call # NoCall /\ call.fn = "extract_skills") =>
        \A c \in 1..Len(skill_database) :
            \A k \in 1..Len(skill_database[c].skills) :
                LET entry == skill_database[c].skills[k]
                    record == [skill_name |-> Title(entry),
                               skill_category |-> skill_database[c].category]
                    recorded == \E n \in 1..Len(call.ret.val) : call.ret.val[n] = record
                IN  recorded <=> OccursAsWholeWord(entry, Lower(call.args[1]))

(***************************************************************************)
(* C21: extract_experience returns at most 10 entries, one for each line   *)
(* that contains a title keyword, in the order of the lines; the k-th      *)
(* entry, counted from 0, has the k-th organization entity of the whole    *)
(* document as its company if there is one and "Unknown" if there is none. *)
(***************************************************************************)
HoldsTitleKeyword(line) == \E keyword \in title_keywords : Contains(Lower(line), keyword)
KeywordLines(text) == SelectSeq(SplitLines(text), HoldsTitleKeyword)

ExperienceAsClaimed(entries, titled, organizations) ==
    /\ Len(entries) <= 10
    /\ Len(entries) = (IF Len(titled) < 10 THEN Len(titled) ELSE 10)
    /\ \A k \in 1..Len(entries) :
          /\ entries[k].title = Strip(titled[k])
          /\ entries[k].company = IF k <= Len(organizations) THEN organizations[k]
                                  ELSE "Unknown"

SummaryAsClaimed(summary, sentences, raw_text) ==
    IF Len(sentences) >= 3
    THEN summary = sentences[1] \o " " \o sentences[2] \o " " \o sentences[3]
    ELSE /\ Len(summary) = (IF Len(raw_text) < 500 THEN Len(raw_text) ELSE 500)
         /\ summary = SubSeq(raw_text, 1, Len(summary))

C22_SummaryRule ==
    (parsed # NoParse /\ parsed.out.ret.kind = "ok") =>
        SummaryAsClaimed(parsed.out.ret.val.summary,
                         SentsFrom(nlp, parsed.out.ret.val.raw_text, 1),
                         parsed.out.ret.val.raw_text)

\* A text of two sentences and more than 500 characters was parsed.
C22_Witness ==
    /\ parsed # NoParse
    /\ parsed.out.ret.kind = "ok"
    /\ Len(SentsFrom(nlp, parsed.out.ret.val.raw_text, 1)) = 2
    /\ Len(parsed.out.ret.val.raw_text) > 500
    /\ Len(parsed.out.ret.val.summary) = 500

(***************************************************************************)
(* C23: field extraction does not raise on missing fields.  For any text   *)
(* that was extracted, the empty text and texts without a skill, a title,  *)
(* a degree, an email address, a phone number, an organization or a        *)
(* location among them, parse returns a profile; the lists of what the     *)
(* text does not hold are empty, and the missing contact fields, duration, *)
(* institution and year are None.                                          *)
(***************************************************************************)
NamesNoSkill(text) ==
    \A i \in 1..Len(skill_database) : \A j \in 1..Len(skill_database[i].skills) :
        ~WordSearch(skill_database[i].skills[j], Lower(text))
NamesNoDegree(text) == \A degree \in degree_patterns : ~Contains(Lower(text), degree)
HoldsNoDigit(text) == \A i \in 1..Len(text) : ~IsDigit(Ch(text, i))
NamesNo(label, model, text) == EntTexts(EntsFrom(model, text, 1), label) = <<>>

MissingFieldsAbsent(profile, text, model) ==
    /\ NamesNoSkill(text) => profile.skills = <<>>
    /\ KeywordLines(text) = <<>> => profile.experience = <<>>
    /\ NamesNoDegree(text) => profile.education = <<>>
    /\ ~Contains(text, "@") => profile.contact.email = PyNone
    /\ HoldsNoDigit(text) =>
          /\ profile.contact.phone = PyNone
          /\ \A k \in 1..Len(profile.experience) : profile.experience[k].duration = PyNone
          /\ \A k \in 1..Len(profile.education) : profile.education[k].year = PyNone
    /\ NamesNo("ORG", model, text) =>
          \A k \in 1..Len(profile.education) : profile.education[k].institution = PyNone
    /\ NamesNo("GPE", model, text) => profile.contact.location = PyNone

C23_NoRaiseOnMissingFields ==
    (parsed # NoParse /\ extract_text_from_pdf(parsed.content).ret.kind = "ok"
     /\ EndsWith(Lower(parsed.filename), ".pdf")) =>
        /\ parsed.out.ret.kind = "ok"
        /\ MissingFieldsAbsent(parsed.out.ret.val,
                               extract_text_from_pdf(parsed.content).ret.val, nlp)

\* The empty text was parsed: the profile has no entry and no contact field.
C23_Witness ==
    /\ parsed # NoParse
    /\ parsed.out.ret.kind = "ok"
    /\ parsed.out.ret.val.raw_text = ""
    /\ parsed.out.ret.val.skills = <<>>
    /\ parsed.out.ret.val.experience = <<>>
    /\ parsed.out.ret.val.education = <<>>
    /\ parsed.out.ret.val.contact = [email |-> PyNone, phone |-> PyNone, location |-> PyNone]

(***************************************************************************)
(* C24: for each (user, job) pair, get_matched_jobs reuses the pair's most *)
(* recently calculated stored match, taking its stored score and breakdown *)
(* and adding no Match row, exactly when that match was calculated less    *)
(* than 86400 seconds ago; otherwise it calculates the score anew and adds *)
(* exactly one Match row for the pair, and the commit inserts the rows the *)
(* request added, no more and no fewer.                                    *)
(***************************************************************************)
\* The number of Match rows for the job that the session of a request holds.
PendingFor(h, job_id) ==
    Cardinality({i \in DOMAIN h.flushed : h.flushed[i].job_id = job_id})
        + Cardinality({i \in DOMAIN h.added : h.added[i].job_id = job_id})

StoredResult(match) ==
    [match_score |-> match.match_score, score_breakdown |-> match.score_breakdown]

\* The pair has a latest stored match, calculated less than a day before now.
HasFreshMatch(matches, user, job_id, now) ==
    \E i \in LatestMatches(matches, user, job_id) : now - matches[i].calculated_at < DAY

\* What the claim says of the step of request r for the job at k.
ReusedOrCalculated(h, after, matches, now) ==
    /\ after.pc = "loop"
    /\ IF HasFreshMatch(matches, h.user, h.all_jobs[h.k].id, now)
       THEN /\ \E i \in LatestMatches(matches, h.user, h.all_jobs[h.k].id) :
                  after.match_result = StoredResult(matches[i])
            /\ PendingFor(after, h.all_jobs[h.k].id) = 0
       ELSE /\ calculate_match_score(h.resume_data, JobData(h.all_jobs[h.k]),
                                     h.preferences).kind = "ok"
            /\ after.match_result =
                  calculate_match_score(h.resume_data, JobData(h.all_jobs[h.k]),
                                        h.preferences).val
            /\ PendingFor(after, h.all_jobs[h.k].id) = 1

\* What the claim says of the commit of request r.
InsertsWhatWasAdded(h, matches, after) ==
    /\ Len(after) = Len(matches) + Len(h.flushed) + Len(h.added)
    /\ \A job \in db_jobs :
          Cardinality({i \in DOMAIN after : after[i].user_id = h.user
                                            /\ after[i].job_id = job.id})
            = Cardinality({i \in DOMAIN matches : matches[i].user_id = h.user
                                                  /\ matches[i].job_id = job.id})
              + PendingFor(h, job.id)

C24_ReuseExactlyWhenFresh ==
    [][\A r \in Requests :
          (handlers[r].pc = "loop" /\ handlers'[r] # handlers[r]) =>
              IF handlers[r].k <= Len(handlers[r].all_jobs)
              THEN ReusedOrCalculated(handlers[r], handlers'[r], db_matches, clock)
              ELSE InsertsWhatWasAdded(handlers[r], db_matches, db_matches')]_vars

(***************************************************************************)
(* C25: two get_matched_jobs requests handled at the same time for a pair  *)
(* without a stored match under a day old can both find no match to reuse  *)
(* and both add a row; nothing at the data layer rejects the second row:   *)
(* every commit stores all the rows of its session, whatever rows of the   *)
(* same pair the table holds already.                                      *)
(***************************************************************************)
C25_CommitStoresEveryRow ==
    [][\A r \in Requests :
          (handlers[r].pc = "loop" /\ handlers'[r] # handlers[r]
           /\ handlers[r].k > Len(handlers[r].all_jobs)) =>
              /\ Len(handlers'[r].inserted)
                    = Len(handlers[r].flushed) + Len(handlers[r].added)
              /\ db_matches' = db_matches \o handlers'[r].inserted]_vars

\* Both requests found no match of the pair, both added a row and both
\* committed: the table holds two rows of the pair calculated less than a
\* day apart.
C25_Witness ==
    /\ \A r \in Requests : handlers[r].pc = "done" /\ handlers[r].status = 200
    /\ \E job \in db_jobs :
          /\ \A r \in Requests :
                \E k \in DOMAIN handlers[r].inserted :
                    /\ handlers[r].inserted[k].user_id = handlers[r].user
                    /\ handlers[r].inserted[k].job_id = job.id
          /\ handlers[1].user = handlers[2].user
          /\ \E i, j \in DOMAIN db_matches :
                /\ i < j
                /\ db_matches[i].user_id = handlers[1].user
                /\ db_matches[j].user_id = handlers[1].user
                /\ db_matches[i].job_id = job.id
                /\ db_matches[j].job_id = job.id
                /\ db_matches[j].calculated_at - db_matches[i].calculated_at < DAY
                /\ db_matches[i].calculated_at - db_matches[j].calculated_at < DAY

(***************************************************************************)
(* C26: the list get_matched_jobs returns is in non-increasing order of    *)
(* match_score and holds only jobs with match_score >= min_score; it is    *)
(* the slice [(page-1)*page_size, page*page_size) of the full list of the  *)
(* jobs passing the filter sorted by score, so it has at most page_size    *)
(* jobs and two distinct pages of the list share no job.                   *)
(***************************************************************************)
NonIncreasing(jobs) ==
    \A i, j \in DOMAIN jobs : i < j => jobs[i].match_score >= jobs[j].match_score

\* The slice [(page-1)*page_size, page*page_size) of the list, positions
\* counted from 0.
SliceOf(jobs, page, page_size) ==
    {i \in DOMAIN jobs : (page - 1) * page_size <= i - 1 /\ i - 1 < page * page_size}

\* The list holds, once each, the jobs whose match for the user is of
\* min_score and more, with the score of that match.
FilteredBy(jobs, user, min_score, matches) ==
    /\ \A i, j \in DOMAIN jobs : jobs[i].id = jobs[j].id => i = j
    /\ \A i \in DOMAIN jobs :
          /\ jobs[i].id \in JobIds
          /\ jobs[i].match_score >= min_score
          /\ \E m \in LatestMatches(matches, user, jobs[i].id) :
                matches[m].match_score = jobs[i].match_score
    /\ \A job \in db_jobs :
          (\E m \in LatestMatches(matches, user, job.id) :
                matches[m].match_score >= min_score)
            => \E i \in DOMAIN jobs : jobs[i].id = job.id

C26_SortedFilteredPage ==
    \A r \in Requests :
        (handlers[r].pc = "done" /\ handlers[r].status = 200) =>
            /\ NonIncreasing(handlers[r].body)
            /\ \A i \in DOMAIN handlers[r].body :
                  handlers[r].body[i].match_score >= handlers[r].min_score
            /\ Len(handlers[r].body) <= handlers[r].page_size
            /\ NonIncreasing(handlers[r].matched_jobs)
            /\ FilteredBy(handlers[r].matched_jobs, handlers[r].user,
                          handlers[r].min_score, db_matches)
            /\ Len(handlers[r].body)
                  = Cardinality(SliceOf(handlers[r].matched_jobs, handlers[r].page,
                                        handlers[r].page_size))
            /\ \A i \in DOMAIN handlers[r].body :
                  handlers[r].body[i] =
                      handlers[r].matched_jobs[(handlers[r].page - 1)
                                                 * handlers[r].page_size + i]
            /\ \A p, q \in 1..(Len(handlers[r].matched_jobs) + 1) :
                  p # q =>
                      {handlers[r].matched_jobs[i].id :
                          i \in SliceOf(handlers[r].matched_jobs, p, handlers[r].page_size)}
                      \cap {handlers[r].matched_jobs[i].id :
                          i \in SliceOf(handlers[r].matched_jobs, q, handlers[r].page_size)}
                        = {}

\* The second page of one job was returned: the job of the lower score, of
\* two that passed the filter, the loop having met it first.
C26_Witness ==
    /\ handlers[1].pc = "done"
    /\ handlers[1].status = 200
    /\ handlers[1].page = 2
    /\ Len(handlers[1].matched_jobs) = 2
    /\ Len(handlers[1].body) = 1
    /\ handlers[1].body[1].match_score < handlers[1].matched_jobs[1].match_score
    /\ handlers[1].body[1].id = "j2"
    /\ \E k \in DOMAIN handlers[1].inserted :
          k < Len(handlers[1].inserted) /\ handlers[1].inserted[k].job_id = "j2"

(***************************************************************************)
(* C27: when get_matched_jobs requests are handled one at a time, any two  *)
(* Match rows of one (user, job) pair have calculated_at values at least   *)
(* 86400 seconds apart, and no step updates or deletes a Match row: the    *)
(* table only grows at its end.                                            *)
(***************************************************************************)
RowsADayApart(matches) ==
    \A i, j \in DOMAIN matches :
        (i < j /\ matches[i].user_id = matches[j].user_id
               /\ matches[i].job_id = matches[j].job_id)
            => \/ matches[j].calculated_at - matches[i].calculated_at >= DAY
               \/ matches[i].calculated_at - matches[j].calculated_at >= DAY

OnlyAppended(matches, after) ==
    /\ Len(after) >= Len(matches)
    /\ SubSeq(after, 1, Len(matches)) = matches

C27_RowsADayApartAndKept ==
    [](RowsADayApart(db_matches)) /\ [][OnlyAppended(db_matches, db_matches')]_vars

\* A pair has two rows: the one a request stored and the one a request a
\* day later stored.
C27_Witness ==
    \E i, j \in DOMAIN db_matches :
        /\ i < j
        /\ db_matches[i].user_id = db_matches[j].user_id
        /\ db_matches[i].job_id = db_matches[j].job_id
        /\ db_matches[j].calculated_at - db_matches[i].calculated_at = DAY

(***************************************************************************)
(* C28: whether get_matched_jobs reuses a stored match depends on the pair *)
(* and on the age of its latest match only.  A match less than a day old   *)
(* is returned as stored, and nothing is calculated or added, whatever the *)
(* resume and the preferences of the user are now; so the score returned   *)
(* can differ from the one a calculation on them would give.               *)
(***************************************************************************)
ReturnedAsStored(h, after, matches) ==
    /\ after.pc = "loop"
    /\ after.k = h.k + 1
    /\ Len(after.flushed) + Len(after.added) = Len(h.flushed) + Len(h.added)
    /\ \E i \in LatestMatches(matches, h.user, h.all_jobs[h.k].id) :
          /\ after.match_result = StoredResult(matches[i])
          /\ after.matched_jobs =
                IF matches[i].match_score >= h.min_score
                THEN Append(h.matched_jobs,
                            JobDict(h.all_jobs[h.k], StoredResult(matches[i])))
                ELSE h.matched_jobs

C28_FreshMatchReturnedUnchanged ==
    [][\A r \in Requests :
          (/\ handlers[r].pc = "loop"
           /\ handlers'[r] # handlers[r]
           /\ handlers[r].k <= Len(handlers[r].all_jobs)
           /\ HasFreshMatch(db_matches, handlers[r].user,
                            handlers[r].all_jobs[handlers[r].k].id, clock))
            => ReturnedAsStored(handlers[r], handlers'[r], db_matches)]_vars

\* The user has one resume and set a location preference after the match
\* was stored: the request took the stored score for the job, which is not
\* the score of the resume under the preference.
C28_Witness ==
    /\ handlers[1].pc = "loop"
    /\ handlers[1].k = 2
    /\ handlers[1].added = <<>>
    /\ handlers[1].flushed = <<>>
    /\ handlers[1].preferences # PyNone
    /\ Cardinality(db_resumes) = 1
    /\ calculate_match_score(handlers[1].resume_data,
                             JobData(handlers[1].all_jobs[1]),
                             handlers[1].preferences).kind = "ok"
    /\ calculate_match_score(handlers[1].resume_data,
                             JobData(handlers[1].all_jobs[1]),
                             handlers[1].preferences).val.match_score
          # handlers[1].match_result.match_score

(***************************************************************************)
(* C29: with create_application requests handled one after another, a     *)
(* user has at most one Application row per job.  A request for a job the  *)
(* user has applied to is answered with status 400 and leaves the          *)
(* applications as they were; a request naming no job of the table is      *)
(* answered with status 404 and creates nothing.                           *)
(***************************************************************************)
OnePerUserAndJob(applications) ==
    \A i, j \in DOMAIN applications :
        (applications[i].user_id = applications[j].user_id
         /\ applications[i].job_id = applications[j].job_id) => i = j

AnsweredAsClaimed(user, job_id, jobs, before, ret, after) ==
    /\ after = ret.applications
    /\ job_id \notin {job.id : job \in jobs} =>
          ret.status = 404 /\ after = before
    /\ (job_id \in {job.id : job \in jobs}
        /\ \E i \in DOMAIN before :
              before[i].user_id = user /\ before[i].job_id = job_id) =>
          ret.status = 400 /\ after = before
    /\ ret.status \notin {400, 404} =>
          /\ Len(after) = Len(before) + 1
          /\ SubSeq(after, 1, Len(before)) = before
          /\ after[Len(after)].user_id = user
          /\ after[Len(after)].job_id = job_id

C29_OneApplicationPerJob ==
    /\ OnePerUserAndJob(db_applications)
    /\ call.fn = "create_application" =>
          AnsweredAsClaimed(call.args[1], call.args[2], call.jobs, call.before,
                            call.ret, db_applications)

\* A user who has applied to a job applied again: status 400, and the
\* table still holds the one application, next to one of another user.
C29_Witness ==
    /\ call.fn = "create_application"
    /\ call.ret.status = 400
    /\ Len(db_applications) = 2
    /\ db_applications[1].job_id = db_applications[2].job_id
    /\ \E i \in DOMAIN db_applications :
          /\ db_applications[i].user_id = call.args[1]
          /\ db_applications[i].job_id = call.args[2]
          /\ db_applications[i].applied_at < call.now

(***************************************************************************)
(* C30: create_preferences is an upsert.  For a user who has preferences   *)
(* it sets the fields the request sets, leaves the other fields of the     *)
(* record unchanged, but for updated_at, which takes the time of the       *)
(* update, and creates no second record; so after any sequence of          *)
(* create_preferences and update_preferences calls a user has at most one  *)
(* Preference.  update_preferences for a user with none is answered with   *)
(* status 404 and creates nothing.                                         *)
(***************************************************************************)
AtMostOnePreference(preferences) ==
    \A i, j \in DOMAIN preferences :
        preferences[i].user_id = preferences[j].user_id => i = j

\* The table after create_preferences, the fields of frame being those
\* that keep their value when the request does not set them.
Upserted(before, user, pref_data, after, frame) ==
    IF \E i \in DOMAIN before : before[i].user_id = user
    THEN /\ Len(after) = Len(before)
         /\ \A i \in DOMAIN before :
               IF before[i].user_id = user
               THEN /\ \A f \in DOMAIN pref_data :
                          SameValue(after[i][f], ColumnValue(f, pref_data[f]))
                    /\ \A f \in frame \ DOMAIN pref_data : after[i][f] = before[i][f]
               ELSE after[i] = before[i]
    ELSE /\ Len(after) = Len(before) + 1
         /\ SubSeq(after, 1, Len(before)) = before
         /\ after[Len(after)].user_id = user
         /\ \A f \in DOMAIN pref_data :
               SameValue(after[Len(after)][f], ColumnValue(f, pref_data[f]))

\* update_preferences for a user with none.
NoneToUpdate(before, user, ret, after) ==
    (\A i \in DOMAIN before : before[i].user_id # user) =>
        ret.status = 404 /\ after = before

UpsertKeeping(frame) ==
    /\ AtMostOnePreference(db_preferences)
    /\ call.fn = "create_preferences" =>
          Upserted(call.before, call.args[1], call.args[2], db_preferences, frame)
    /\ call.fn = "update_preferences" =>
          NoneToUpdate(call.before, call.args[1], call.ret, db_preferences)

C30_UpsertKeepsOtherFields ==
    UpsertKeeping(PreferenceFields \cup {"user_id"})

\* C30 as stated: every field of the record that the request does not set
\* is unchanged, updated_at among them.
C30_UpsertKeepsEveryOtherField ==
    UpsertKeeping(PreferenceFields \cup {"user_id", "updated_at"})

\* A user with a location preference sent a minimum salary a day later:
\* the record keeps the location, holds the salary and has a new
\* updated_at, and the table holds this record and one of another user.
C30_Witness ==
    /\ call.fn = "create_preferences"
    /\ DOMAIN call.args[2] = {"min_salary"}
    /\ Len(call.before) = 2
    /\ Len(db_preferences) = 2
    /\ \E i \in DOMAIN db_preferences :
          /\ call.before[i].user_id = call.args[1]
          /\ call.before[i].location = PyStr("Remote")
          /\ call.before[i].min_salary = PyNone
          /\ db_preferences[i].location = PyStr("Remote")
          /\ db_preferences[i].min_salary = PyStr("2")
          /\ db_preferences[i].updated_at > call.before[i].updated_at

====
